---- MODULE Spec2Model ----
(***************************************************************************)
(* Bulk create-or-update mutations of the catalog (attributes with their   *)
(* nested values, categories, products).  Every mutation runs inside one   *)
(* database transaction: a call that raises leaves the store as it was, a  *)
(* call that returns commits everything it wrote.  Strings that the code   *)
(* transforms (slugs, value names) are sequences of one-character strings. *)
(***************************************************************************)
EXTENDS Integers, Sequences, FiniteSets, TLC

VARIABLES
    attributes,        \* rows of models.Attribute
    attribute_values,  \* rows of models.AttributeValue
    categories,        \* rows of models.Category
    products,          \* rows of models.Product
    product_variants,  \* rows of models.ProductVariant
    product_media,     \* rows of models.ProductMedia
    variant_media,     \* rows of models.VariantMedia: the media-variant links
    call,              \* the request being answered and its response
    phase,             \* "idle" between requests, "done" while a response is held
    calls              \* number of requests served so far

vars == <<attributes, attribute_values, categories, products, product_variants,
          product_media, variant_media, call, phase, calls>>

(* ------------------------------ bounds --------------------------------- *)
MaxBatch == 2
MaxCalls == 2

\* F applied to the value of e, which is computed once.
With(e, F(_)) == CHOOSE result \in {F(x) : x \in {e}} : TRUE

(* ------------------------------ strings -------------------------------- *)
None == <<>>

Truthy(s) == s # None

RECURSIVE MapSeq(_, _)
MapSeq(f, s) == IF s = <<>> THEN <<>> ELSE <<f[Head(s)]>> \o MapSeq(f, Tail(s))

\* The characters that occur in the modelled inputs.
Chars == {"R", "r", "e", "c", "E", " ", "-", "_", "!", "2", "3", "4", "5",
          "d", "f", "a", "u", "l", "t", "s", "g"}

\* text_unidecode.unidecode: an accented letter becomes its ASCII base letter.
unidecode_char == [c \in Chars |-> IF c = "E" THEN "e" ELSE c]

unidecode(s) == MapSeq(unidecode_char, s)

lower_char == [c \in Chars |-> IF c = "R" THEN "r" ELSE c]

IsWordChar(c) == c \in Chars \ {" ", "-", "!"}

IsSepChar(c) == c \in {" ", "-"}

\* re.sub(r"[^\w\s-]", "", value.lower())
RECURSIVE DropSymbols(_)
DropSymbols(s) ==
    IF s = <<>> THEN <<>>
    ELSE IF IsWordChar(Head(s)) \/ IsSepChar(Head(s))
         THEN <<lower_char[Head(s)]>> \o DropSymbols(Tail(s))
         ELSE DropSymbols(Tail(s))

\* re.sub(r"[-\s]+", "-", value)
RECURSIVE CollapseSeps(_)
CollapseSeps(s) ==
    IF s = <<>> THEN <<>>
    ELSE IF IsSepChar(Head(s))
         THEN IF Len(s) > 1 /\ IsSepChar(s[2])
              THEN CollapseSeps(Tail(s))
              ELSE <<"-">> \o CollapseSeps(Tail(s))
         ELSE <<Head(s)>> \o CollapseSeps(Tail(s))

\* str.strip("-_")
RECURSIVE StripLeft(_)
StripLeft(s) ==
    IF s # <<>> /\ Head(s) \in {"-", "_"} THEN StripLeft(Tail(s)) ELSE s

RECURSIVE StripRight(_)
StripRight(s) ==
    IF s # <<>> /\ s[Len(s)] \in {"-", "_"}
    THEN StripRight(SubSeq(s, 1, Len(s) - 1))
    ELSE s

slugify(s) == StripRight(StripLeft(CollapseSeps(DropSymbols(s))))

Digit == [n \in 2..5 |-> CASE n = 2 -> "2" [] n = 3 -> "3" [] n = 4 -> "4" [] OTHER -> "5"]

\* core.utils.prepare_unique_slug: append -2, -3, ... until the slug is free.
RECURSIVE unique_slug_from(_, _, _)
unique_slug_from(slug, slug_values, extension) ==
    LET candidate == IF extension = 1 THEN slug ELSE slug \o <<"-", Digit[extension]>>
    IN  IF candidate \in slug_values /\ extension < 5
        THEN unique_slug_from(slug, slug_values, extension + 1)
        ELSE candidate

prepare_unique_slug(slug, slug_values) == unique_slug_from(slug, slug_values, 1)

(* ------------------------------ inputs --------------------------------- *)
PRODUCT_TYPE == "PRODUCT_TYPE"
PAGE_TYPE == "PAGE_TYPE"
DROPDOWN == "DROPDOWN"
REFERENCE == "REFERENCE"
SWATCH == "SWATCH"
REJECT_EVERYTHING == "REJECT_EVERYTHING"
REJECT_FAILED_ROWS == "REJECT_FAILED_ROWS"
MANAGE_PRODUCT_TYPES_AND_ATTRIBUTES == "MANAGE_PRODUCT_TYPES_AND_ATTRIBUTES"
MANAGE_PAGE_TYPES_AND_ATTRIBUTES == "MANAGE_PAGE_TYPES_AND_ATTRIBUTES"
MANAGE_PRODUCTS == "MANAGE_PRODUCTS"

\* AttributeValueCreateInput: a name, the ref, value and code of
\* additional_fields, and the swatch fields value (swatch_value here, to tell it
\* from additional_fields.value) and file_url; None stands for a field that is
\* absent or empty.
ValueInput(name, ref, value, code) ==
    [name |-> name, ref |-> ref, value |-> value, code |-> code,
     swatch_value |-> None, file_url |-> None]

\* A value with the fields of a swatch: a colour value and a file reference.
SwatchValueInput(name, value, file_url) ==
    [name |-> name, ref |-> None, value |-> None, code |-> None,
     swatch_value |-> value, file_url |-> file_url]

RECURSIVE SeqsUpTo(_, _)
SeqsUpTo(S, n) ==
    IF n = 0 THEN {<<>>}
    ELSE LET shorter == SeqsUpTo(S, n - 1)
         IN  shorter \cup {Append(s, x) : s \in {t \in shorter : Len(t) = n - 1}, x \in S}

\* AttributeCreateInput.  available_in_grid is one of the deprecated fields:
\* TRUE means the key is present in the input.
AttributeInput(slug, name, type, input_type, entity_type, fid, grid, values) ==
    [slug |-> slug, name |-> name, type |-> type, input_type |-> input_type,
     entity_type |-> entity_type, filterable_in_dashboard |-> fid,
     available_in_grid |-> grid, values |-> values]

DefaultAttributeInput ==
    AttributeInput(<<"r">>, "n1", PRODUCT_TYPE, DROPDOWN, None, FALSE, FALSE, <<>>)

\* The nested value lists of the model: one valid value, one invalid value, two
\* values with the same slug, an invalid value followed by a valid one, a valid
\* value followed by an invalid one with the same slug, and a value with a
\* file reference.
ValueLists ==
    LET R == ValueInput(<<"R">>, None, None, None)
        r == ValueInput(<<"r">>, None, None, None)
        blank == ValueInput(None, None, None, None)
        blank_r == ValueInput(None, None, None, <<"r">>)
        file == SwatchValueInput(<<"R">>, None, <<"u">>)
    IN  {<<R>>, <<blank>>, <<R, r>>, <<blank, R>>, <<R, blank_r>>, <<file>>}

\* The items of the model: the default item, the items that differ from it in
\* one field, and items with the other slug or with no slug.
AttributeInputs ==
    LET D == DefaultAttributeInput
    IN  {D, [D EXCEPT !.name = "n2"], [D EXCEPT !.type = PAGE_TYPE],
         [D EXCEPT !.input_type = REFERENCE],
         [D EXCEPT !.input_type = REFERENCE, !.entity_type = <<"e">>,
                   !.filterable_in_dashboard = TRUE],
         [D EXCEPT !.available_in_grid = TRUE],
         [D EXCEPT !.slug = <<"e">>],
         [D EXCEPT !.slug = <<"e">>, !.values = <<ValueInput(<<"R">>, None, None, None)>>],
         [D EXCEPT !.slug = None],
         [D EXCEPT !.input_type = SWATCH,
                   !.values = <<SwatchValueInput(<<"R">>, <<"c">>, <<"u">>)>>]}
        \cup {[D EXCEPT !.values = vs] : vs \in ValueLists}

AttributeBatches == SeqsUpTo(AttributeInputs, MaxBatch)

ErrorPolicies == {REJECT_EVERYTHING, REJECT_FAILED_ROWS}

\* The permissions the caller of a request may hold.
Callers ==
    { {MANAGE_PRODUCT_TYPES_AND_ATTRIBUTES, MANAGE_PAGE_TYPES_AND_ATTRIBUTES,
       MANAGE_PRODUCTS},
      {MANAGE_PRODUCT_TYPES_AND_ATTRIBUTES},
      {} }

(* --------------------------- attribute rows ---------------------------- *)
NoInstance == [pk |-> 0, slug |-> None, name |-> "", type |-> "", input_type |-> ""]

NextPk(rows) == 1 + Cardinality(rows)

\* An error of the per-index error map: the field it names, the position of the
\* nested value it is about (0: the item itself) and its code.
Error(path, position, code) == [path |-> path, position |-> position, code |-> code]

\* ATTRIBUTE_PROPERTIES_CONFIGURATION: the input types each setting is legal for.
ATTRIBUTE_PROPERTIES_CONFIGURATION ==
    [filterable_in_dashboard |-> {DROPDOWN}, available_in_grid |-> {DROPDOWN}]

DEPRECATED_ATTR_FIELDS == {"available_in_grid"}

\* BaseMutation.check_permissions: holding one of the listed permissions is enough.
check_permissions(caller, permissions) == caller \cap permissions # {}

\* models.AttributeValue.full_clean(exclude=["attribute", "slug"]): the name of
\* a value may not be blank.
full_clean_errors(name) == IF name = None THEN <<"name">> ELSE <<>>

\* validate_swatch_attr_value and validate_non_swatch_attr_value: a swatch
\* value may not carry both a colour value and a file reference, and a value of
\* any other input type may carry neither.
BreaksSwatchRule(input_type, value_data) ==
    IF input_type = SWATCH
    THEN Truthy(value_data.swatch_value) /\ Truthy(value_data.file_url)
    ELSE Truthy(value_data.swatch_value) \/ Truthy(value_data.file_url)

\* attribute_bulk_create.clean_values: the nested values of a new attribute go
\* through the rules of the validator.  The only rule that bears on the fields
\* a value of these batches carries is the swatch rule: a value that breaks it
\* adds an INVALID error to the parent index.
clean_values(values, input_type, position) ==
    LET broken == SelectSeq(values, LAMBDA value_data :
                                BreaksSwatchRule(input_type, value_data))
    IN  [k \in 1..Len(broken) |-> Error("values", position, "INVALID")]

(* ------------------------- clean_attribute_input ----------------------- *)
NoCleaned ==
    [present |-> FALSE, validated |-> FALSE, slug |-> None, name |-> "", type |-> "",
     input_type |-> "", values |-> <<>>]

\* The first setting of ATTRIBUTE_PROPERTIES_CONFIGURATION that is set on an
\* input type it is not legal for, or "" when there is none.
ConfigurationViolation(attribute_data) ==
    IF attribute_data.input_type \notin ATTRIBUTE_PROPERTIES_CONFIGURATION.filterable_in_dashboard
       /\ attribute_data.filterable_in_dashboard
    THEN "filterableInDashboard"
    ELSE IF attribute_data.input_type \notin ATTRIBUTE_PROPERTIES_CONFIGURATION.available_in_grid
            /\ attribute_data.available_in_grid
         THEN "availableInGrid"
         ELSE ""

_generate_slug(slug, existing_slugs) == prepare_unique_slug(slug, existing_slugs)

\* Returns the errors added to the index, the cleaned input (present = FALSE
\* when the function returned None) and the grown set of known slugs.
clean_attribute_input(caller, attribute_data, existing_slugs) ==
    LET permissions ==
            IF attribute_data.type = PRODUCT_TYPE
            THEN {MANAGE_PRODUCT_TYPES_AND_ATTRIBUTES}
            ELSE {MANAGE_PAGE_TYPES_AND_ATTRIBUTES}
        rejected(e) ==
            [errors |-> <<e>>, cleaned |-> NoCleaned, existing_slugs |-> existing_slugs]
        unique_slug == _generate_slug(attribute_data.slug, existing_slugs)
    IN  IF ~check_permissions(caller, permissions)
        THEN rejected(Error("", 0, "REQUIRED"))
        ELSE IF attribute_data.input_type = REFERENCE /\ ~Truthy(attribute_data.entity_type)
        THEN rejected(Error("entityType", 0, "REQUIRED"))
        ELSE IF ConfigurationViolation(attribute_data) # ""
        THEN rejected(Error(ConfigurationViolation(attribute_data), 0, "INVALID"))
        ELSE [errors |-> clean_values(attribute_data.values, attribute_data.input_type, 1),
              cleaned |-> [present |-> TRUE, validated |-> TRUE, slug |-> unique_slug,
                           name |-> attribute_data.name, type |-> attribute_data.type,
                           input_type |-> attribute_data.input_type,
                           values |-> attribute_data.values],
              existing_slugs |-> existing_slugs \cup {unique_slug}]

(* ---------------------------- clean_attributes ------------------------- *)
\* One step of a request on an item of the batch, in the order the code takes
\* them: clean_attributes handles the item ("clean"), a row is written for it
\* ("write"), its values are validated ("full_clean"), or the error policy is
\* looked at ("policy", index 0).
Step(step, index) == [step |-> step, index |-> index]

\* The state of the loop over the batch: whether an exception escaped, the
\* known slugs, per index the cleaned input and the collected errors, and the
\* steps taken.
RECURSIVE clean_attributes_from(_, _, _, _)
clean_attributes_from(caller, attributes_data, attribute_index, st) ==
    IF attribute_index > Len(attributes_data) \/ st.raised # "" THEN st
    ELSE
    LET attribute_data == attributes_data[attribute_index]
        slug == attribute_data.slug
        keep(cleaned, errors, slugs) ==
            [raised |-> "", existing_slugs |-> slugs,
             cleaned |-> Append(st.cleaned, cleaned),
             errors |-> Append(st.errors, errors),
             log |-> Append(st.log, Step("clean", attribute_index))]
        next ==
            With(clean_attribute_input(caller, attribute_data, st.existing_slugs),
            LAMBDA c :
            IF ~Truthy(slug)
            THEN keep(NoCleaned, <<Error("slug", 0, "REQUIRED")>>, st.existing_slugs)
            ELSE IF slug \in st.existing_slugs
            THEN keep([present |-> TRUE, validated |-> FALSE, slug |-> slug,
                       name |-> attribute_data.name, type |-> attribute_data.type,
                       input_type |-> attribute_data.input_type,
                       values |-> attribute_data.values],
                      <<>>, st.existing_slugs)
            ELSE IF \E key \in DEPRECATED_ATTR_FIELDS :
                        key = "available_in_grid" /\ attribute_data.available_in_grid
            THEN keep(NoCleaned, <<Error("", 0, "INVALID")>>, st.existing_slugs)
            ELSE IF ~c.cleaned.present
            \* cleaned_input["values"] = [...] on None: TypeError
            THEN [st EXCEPT !.raised = "TypeError", !.errors = Append(st.errors, c.errors)]
            \* the values were popped from attribute_data by clean_attribute_input,
            \* so cleaned_input["values"] is overwritten with the empty list
            ELSE keep([c.cleaned EXCEPT !.values = <<>>], c.errors, c.existing_slugs))
    IN  With(next, LAMBDA st1 :
            clean_attributes_from(caller, attributes_data, attribute_index + 1, st1))

clean_attributes(caller, attributes_data, rows) ==
    clean_attributes_from(caller, attributes_data, 1,
        [raised |-> "",
         existing_slugs |->
            {r.slug : r \in {x \in rows : \E i \in 1..Len(attributes_data) :
                                              attributes_data[i].slug = x.slug}},
         cleaned |-> <<>>, errors |-> <<>>, log |-> <<>>])

(* ------------------------------ create_values -------------------------- *)
\* check_generation_slug: the slug of a nested value.
\* The slug base of check_generation_slug.
check_generation_slug_base(name, ref, value, code) ==
    IF Truthy(ref) /\ Truthy(value) THEN ref \o <<"-">> \o value
    ELSE IF Truthy(name) /\ Truthy(code) THEN name \o <<"-">> \o code
    ELSE IF Truthy(name) THEN name
    ELSE IF Truthy(code) THEN code
    ELSE <<"-">>

check_generation_slug(name, ref, value, code) ==
    LET slug_base == check_generation_slug_base(name, ref, value, code)
        slug == slugify(unidecode(slug_base))
    IN  IF ~Truthy(slug) THEN <<"-">> ELSE slug

\* The literal "default-slug".
default_slug == <<"d", "e", "f", "a", "u", "l", "t", "-", "s", "l", "u", "g">>

\* The slug base of AttributeMixin.generate_slug.
generate_slug_base(ref, value, name, code) ==
    IF Truthy(ref) /\ Truthy(value) THEN ref \o <<"-">> \o value
    ELSE IF Truthy(code) /\ Truthy(name) THEN name \o <<"-">> \o code
    ELSE IF Truthy(name) THEN name
    ELSE IF Truthy(ref) THEN ref
    ELSE IF Truthy(value) THEN value
    ELSE IF Truthy(code) THEN code
    ELSE default_slug

\* AttributeMixin.generate_slug; slug_list is the set of the listed slugs.
generate_slug(ref, value, name, code, slug_list) ==
    LET slug == slugify(unidecode(generate_slug_base(ref, value, name, code)))
    IN  prepare_unique_slug(IF slug = None THEN default_slug ELSE slug, slug_list)

ValueSlug(value_data) ==
    check_generation_slug(value_data.name, value_data.ref, value_data.value,
                          value_data.code)

\* value_slugs[value_slug] = value_data: a dict keeps the position of the first
\* insertion of a key and the value of the last.
RECURSIVE value_slugs_of(_, _)
value_slugs_of(values_data, acc) ==
    IF values_data = <<>> THEN acc
    ELSE LET value_data == Head(values_data)
             value_slug == ValueSlug(value_data)
             entry == [slug |-> value_slug, data |-> value_data]
             seen == \E i \in 1..Len(acc) : acc[i].slug = value_slug
         IN  With(IF seen
                  THEN [i \in 1..Len(acc) |->
                           IF acc[i].slug = value_slug THEN entry ELSE acc[i]]
                  ELSE Append(acc, entry),
                  LAMBDA acc1 : value_slugs_of(Tail(values_data), acc1))

\* The loop over value_slugs.items(): the values to create, the values to
\* update and the errors of the values whose full_clean failed.
RECURSIVE values_loop(_, _, _, _)
values_loop(attribute_pk, entries, value_rows, st) ==
    IF entries = <<>> \/ st.raised # "" THEN st
    ELSE
    LET value_slug == Head(entries).slug
        value_data == Head(entries).data
        existing == {v \in value_rows : v.attribute = attribute_pk /\ v.slug = value_slug}
        failed == full_clean_errors(value_data.name)
        \* path = f"values.{value_data.get('index')}.{to_camel_case(key)}"
        errors == [i \in 1..Len(failed) |-> Error("values.None.name", 0, "blank")]
        next ==
            IF existing # {}
            THEN IF Cardinality(existing) > 1
                 THEN [st EXCEPT !.raised = "MultipleObjectsReturned"]
                 ELSE IF failed # <<>>
                 THEN [st EXCEPT !.errors = st.errors \o errors]
                 ELSE [st EXCEPT !.to_update = Append(st.to_update,
                           [pk |-> (CHOOSE v \in existing : TRUE).pk,
                            name |-> value_data.name])]
            ELSE IF failed # <<>>
                 THEN [st EXCEPT !.errors = st.errors \o errors]
                 ELSE [st EXCEPT !.to_create = Append(st.to_create,
                           [slug |-> value_slug, name |-> value_data.name,
                            ref |-> value_data.ref, value |-> value_data.value,
                            code |-> value_data.code])]
    IN  With(next, LAMBDA st1 : values_loop(attribute_pk, Tail(entries), value_rows, st1))

\* AttributeValue.objects.bulk_create
RECURSIVE bulk_create_values(_, _, _)
bulk_create_values(attribute_pk, to_create, value_rows) ==
    IF to_create = <<>> THEN value_rows
    ELSE LET v == Head(to_create)
             row == [pk |-> NextPk(value_rows), attribute |-> attribute_pk,
                     slug |-> v.slug, name |-> v.name, ref |-> v.ref,
                     value |-> v.value, code |-> v.code]
         IN  With(value_rows \cup {row},
                  LAMBDA rows1 : bulk_create_values(attribute_pk, Tail(to_create), rows1))

\* AttributeValue.objects.bulk_update(values_to_update, ["name", "additional_fields"]):
\* additional_fields of the fetched row was not touched, so only the name changes.
bulk_update_values(to_update, value_rows) ==
    {IF \E i \in 1..Len(to_update) : to_update[i].pk = v.pk
     THEN [v EXCEPT !.name =
              to_update[CHOOSE i \in 1..Len(to_update) : to_update[i].pk = v.pk].name]
     ELSE v : v \in value_rows}

create_values(attribute_pk, values_data, value_rows) ==
    With(value_slugs_of(values_data, <<>>), LAMBDA value_slugs :
    With(values_loop(attribute_pk, value_slugs, value_rows,
             [raised |-> "", to_create |-> <<>>, to_update |-> <<>>, errors |-> <<>>]),
    LAMBDA st :
    With(bulk_create_values(attribute_pk, st.to_create, value_rows), LAMBDA created :
        [raised |-> st.raised, errors |-> st.errors,
         value_rows |->
            IF st.raised # "" THEN value_rows
            ELSE bulk_update_values(st.to_update, created)])))

(* ---------------------- create_or_update_attributes -------------------- *)
\* Attribute.objects.update_or_create(slug=slug, defaults={name, type, input_type})
\* An update_or_create that never finds the row: it inserts one every time.
always_create(rows, slug, defaults) ==
    LET instance == [pk |-> NextPk(rows), slug |-> slug, name |-> defaults.name,
                     type |-> defaults.type, input_type |-> defaults.input_type]
    IN  [raised |-> "", instance |-> instance, created |-> TRUE,
         rows |-> rows \cup {instance}]

update_or_create(rows, slug, defaults) ==
    LET matching == {r \in rows : r.slug = slug}
    IN  IF matching = {}
        THEN LET instance == [pk |-> NextPk(rows), slug |-> slug, name |-> defaults.name,
                              type |-> defaults.type, input_type |-> defaults.input_type]
             IN  [raised |-> "", instance |-> instance, created |-> TRUE,
                  rows |-> rows \cup {instance}]
        ELSE IF Cardinality(matching) > 1
        THEN [raised |-> "MultipleObjectsReturned", instance |-> NoInstance,
              created |-> FALSE, rows |-> rows]
        ELSE LET old == CHOOSE r \in matching : TRUE
                 instance == [old EXCEPT !.name = defaults.name, !.type = defaults.type,
                                         !.input_type = defaults.input_type]
             IN  [raised |-> "", instance |-> instance, created |-> FALSE,
                  rows |-> (rows \ {old}) \cup {instance}]

\* The loop over cleaned_inputs_map.items().  st holds the rows of both tables,
\* the error map, and per index the instance, whether it was created, and the
\* webhook event type chosen for it.
RECURSIVE create_or_update_loop(_, _, _)
create_or_update_loop(cleaned_inputs, index, st) ==
    IF index > Len(cleaned_inputs) \/ st.raised # "" THEN st
    ELSE
    LET cleaned_input == cleaned_inputs[index]
        next ==
            With(update_or_create(st.rows, cleaned_input.slug, cleaned_input), LAMBDA u :
            With(create_values(u.instance.pk, cleaned_input.values, st.value_rows),
            LAMBDA v :
            IF ~cleaned_input.present
            THEN [st EXCEPT !.instances = Append(st.instances, NoInstance),
                            !.written = Append(st.written, "none")]
            ELSE IF u.raised # ""
            THEN [st EXCEPT !.raised = u.raised]
            ELSE IF cleaned_input.values = <<>>
            THEN [st EXCEPT !.rows = u.rows,
                            !.instances = Append(st.instances, u.instance),
                            !.written = Append(st.written,
                                IF u.created THEN "created" ELSE "updated"),
                            !.log = Append(st.log, Step("write", index))]
            ELSE IF v.raised # ""
            THEN [st EXCEPT !.raised = v.raised]
            ELSE [st EXCEPT !.rows = u.rows, !.value_rows = v.value_rows,
                            !.instances = Append(st.instances, u.instance),
                            !.written = Append(st.written,
                                IF u.created THEN "created" ELSE "updated"),
                            !.errors[index] = st.errors[index] \o v.errors,
                            \* update_or_create, then full_clean of the values
                            !.log = st.log \o <<Step("write", index),
                                                Step("full_clean", index)>>]))
    IN  With(next, LAMBDA st1 : create_or_update_loop(cleaned_inputs, index + 1, st1))

\* for instance_data in instances_data_and_errors_list:
\*     if instance_data["errors"]: instance_data["instance"] = None
reject_failed_rows(instances, errors) ==
    [i \in 1..Len(instances) |->
        IF errors[i] # <<>> THEN NoInstance ELSE instances[i]]

create_or_update_attributes(cleaned_inputs, error_policy, errors, rows, value_rows) ==
    With(create_or_update_loop(cleaned_inputs, 1,
             [raised |-> "", rows |-> rows, value_rows |-> value_rows,
              errors |-> errors, instances |-> <<>>, written |-> <<>>,
              log |-> <<>>]),
    LAMBDA st :
        IF st.raised # "" THEN st
        ELSE IF error_policy = REJECT_FAILED_ROWS
        THEN [st EXCEPT !.instances = reject_failed_rows(st.instances, st.errors)]
        ELSE st)

(* ------------------------- save, post_save_actions --------------------- *)
attributes_to_save(instances) ==
    LET Kept(instance) == instance # NoInstance IN SelectSeq(instances, Kept)

\* Attribute.objects.bulk_update(attributes_to_save, ["name", "type", "input_type"]):
\* one UPDATE whose CASE takes, for a row, the first listed instance with its pk.
bulk_update(to_save, rows) ==
    {IF \E i \in 1..Len(to_save) : to_save[i].pk = r.pk
     THEN LET first == to_save[CHOOSE i \in 1..Len(to_save) :
                                   /\ to_save[i].pk = r.pk
                                   /\ \A j \in 1..(i - 1) : to_save[j].pk # r.pk]
          IN  [r EXCEPT !.name = first.name, !.type = first.type,
                        !.input_type = first.input_type]
     ELSE r : r \in rows}

\* post_save_actions: attribute_created when attribute.pk is None, else
\* attribute_updated.
post_save_actions(to_save) ==
    [i \in 1..Len(to_save) |->
        [event |-> IF to_save[i].pk = 0 THEN "attribute_created" ELSE "attribute_updated",
         pk |-> to_save[i].pk]]

\* attribute_bulk_create.get_results: the rows of the response; with
\* reject_everything every instance is withheld.
get_results(instances, errors, reject_everything) ==
    [i \in 1..Len(instances) |->
        [instance |-> IF reject_everything THEN NoInstance ELSE instances[i],
         errors |-> errors[i]]]

(* ---------------------------- perform_mutation ------------------------- *)
(* ------------------------------ call_event ----------------------------- *)
\* No transaction is open where the events are sent.
no_transaction == FALSE

\* Both mutations send their events inside the atomic block: post_save_actions
\* runs in the decorated perform_mutation, and the loop over product_variants
\* is in the body of the with statement.
traced_atomic_transaction == TRUE

\* A call_event that sends the event at once, wherever it is called.
call_event_at_once(in_atomic_block, queue, event) ==
    [queue EXCEPT !.emitted = Append(@, event)]

\* BaseMutation.call_event: inside an atomic block the event is registered with
\* transaction.on_commit, otherwise it is sent at once.
call_event(in_atomic_block, queue, event) ==
    IF in_atomic_block
    THEN [queue EXCEPT !.on_commit = Append(@, event)]
    ELSE [queue EXCEPT !.emitted = Append(@, event)]

RECURSIVE call_events(_, _, _)
call_events(in_atomic_block, events, queue) ==
    IF events = <<>> THEN queue
    ELSE With(call_event(in_atomic_block, queue, Head(events)),
              LAMBDA queue1 : call_events(in_atomic_block, Tail(events), queue1))

\* What happens from the first call_event to the end of the request, as a list
\* of steps: an event is sent ("emit", with the key of its entity), sending an
\* event raises ("fail"), the atomic block commits or rolls back.  `raised` is
\* the exception that escaped before any event, sink_fails tells whether the
\* event manager raises when an event is sent.  On commit the registered
\* events are sent; on rollback they are discarded; an exception inside the
\* block rolls it back.
delivery(in_atomic_block, events, raised, sink_fails) ==
    LET queue == call_events(in_atomic_block, events,
                             [on_commit |-> <<>>, emitted |-> <<>>])
        Emit(sent) ==
            IF sent # <<>> /\ sink_fails THEN <<Step("fail", 0)>>
            ELSE [i \in 1..Len(sent) |-> Step("emit", sent[i].pk)]
        end(step) == IF in_atomic_block THEN <<Step(step, 0)>> ELSE <<>>
    IN  IF raised # "" THEN end("rollback")
        ELSE IF queue.emitted # <<>> /\ sink_fails
        THEN Emit(queue.emitted) \o end("rollback")
        ELSE Emit(queue.emitted) \o end("commit") \o Emit(queue.on_commit)

\* Sending an event raised.
Failed(steps) == \E p \in 1..Len(steps) : steps[p].step = "fail"

\* An atomic block that is never rolled back.
never_rolled_back(steps) == FALSE

\* The atomic block was rolled back.
RolledBack(steps) == \E p \in 1..Len(steps) : steps[p].step = "rollback"

\* The response of a request that raised: the transaction is rolled back and
\* no result is returned.  index_error_map is the defaultdict as it stood at the
\* raise, read at every index of the batch.
Raised(exception, errors, size) ==
    [raised |-> exception, count |-> 0, results |-> <<>>, events |-> <<>>,
     index_error_map |-> [i \in 1..size |-> IF i <= Len(errors) THEN errors[i] ELSE <<>>],
     slugs |-> <<>>, written |-> <<>>, log |-> <<>>, validated |-> <<>>,
     delivery |-> delivery(traced_atomic_transaction, <<>>, exception, FALSE)]

\* inputs_have_errors and error_policy == REJECT_EVERYTHING
rejects_everything(inputs_have_errors, error_policy) ==
    inputs_have_errors /\ error_policy = REJECT_EVERYTHING

\* AttributeBulkCreateOrUpdate.perform_mutation under traced_atomic_transaction:
\* the rows of both tables when the transaction ends, and the response.  Beside
\* count, results and the emitted events the response records what the run
\* did per index: the final error map, the slug the item was resolved to,
\* whether update_or_create created or updated a row for it, and whether
\* clean_attribute_input accepted it.
perform_mutation(caller, attributes_data, error_policy, rows, value_rows, sink_fails) ==
    With(clean_attributes(caller, attributes_data, rows), LAMBDA cleaned :
    With(create_or_update_attributes(cleaned.cleaned, error_policy, cleaned.errors,
                                     rows, value_rows),
    LAMBDA done :
    LET unchanged(response) ==
            [response |-> response, rows |-> rows, value_rows |-> value_rows]
        inputs_have_errors == \E i \in 1..Len(done.errors) : done.errors[i] # <<>>
        to_save == attributes_to_save(done.instances)
        sent(events) == delivery(traced_atomic_transaction, events, "", sink_fails)
        returned(count, results, events) ==
            [raised |-> "", count |-> count, results |-> results, events |-> events,
             index_error_map |-> done.errors,
             slugs |-> [i \in 1..Len(cleaned.cleaned) |-> cleaned.cleaned[i].slug],
             written |-> done.written,
             log |-> cleaned.log \o done.log \o <<Step("policy", 0)>>,
             delivery |-> sent(events),
             validated |-> [i \in 1..Len(cleaned.cleaned) |->
                               cleaned.cleaned[i].validated]]
    IN  IF ~check_permissions(caller, {MANAGE_PRODUCT_TYPES_AND_ATTRIBUTES,
                                       MANAGE_PAGE_TYPES_AND_ATTRIBUTES})
        THEN unchanged(Raised("GraphQLError", <<>>, Len(attributes_data)))
        ELSE IF cleaned.raised # ""
        THEN unchanged(Raised(cleaned.raised, cleaned.errors, Len(attributes_data)))
        ELSE IF done.raised # ""
        THEN unchanged(Raised(done.raised, done.errors, Len(attributes_data)))
        ELSE IF rejects_everything(inputs_have_errors, error_policy)
        THEN [response |->
                 returned(0, get_results(done.instances, done.errors, TRUE), <<>>),
              rows |-> done.rows, value_rows |-> done.value_rows]
        \* an exception of the event manager leaves perform_mutation
        ELSE IF Failed(sent(post_save_actions(to_save)))
        THEN [response |->
                 [Raised("EventError", done.errors, Len(attributes_data))
                     EXCEPT !.delivery = sent(post_save_actions(to_save)),
                            !.written = done.written],
              rows |-> IF RolledBack(sent(post_save_actions(to_save))) THEN rows
                       ELSE bulk_update(to_save, done.rows),
              value_rows |-> IF RolledBack(sent(post_save_actions(to_save)))
                             THEN value_rows ELSE done.value_rows]
        ELSE [response |->
                 returned(Len(to_save),
                          get_results(done.instances, done.errors, FALSE),
                          post_save_actions(to_save)),
              rows |-> bulk_update(to_save, done.rows),
              value_rows |-> done.value_rows]))

(* ---------------------- CategoryBulkCreateOrUpdate ---------------------- *)
\* CategoryUpdateInput; "" and None stand for a field the request leaves out
\* (reading it from the input object yields None).
CategoryInput(slug, name, description, parent_slug) ==
    [slug |-> slug, name |-> name, description |-> description,
     parent_slug |-> parent_slug]

CategoryInputs ==
    { CategoryInput(<<"r">>, "n1", "d1", None),
      CategoryInput(<<"r">>, "n2", "", None),
      CategoryInput(<<"r">>, "", "d1", None),
      CategoryInput(<<"r">>, "n1", "d1", <<"e">>),
      CategoryInput(<<"r">>, "n1", "d1", <<"r">>),
      CategoryInput(<<"e">>, "n1", "d1", None),
      CategoryInput(<<"e">>, "n1", "d1", <<"r">>),
      CategoryInput(<<"e">>, "n2", "d1", <<"x">>),
      CategoryInput(None, "n1", "d1", None) }

CategoryBatches == SeqsUpTo(CategoryInputs, MaxBatch)

\* The categories below pk in the tree (pk itself excluded).
RECURSIVE Descendants(_, _, _)
Descendants(rows, pks, fuel) ==
    LET children == {r.pk : r \in {x \in rows : x.parent \in pks}}
    IN  IF fuel = 0 \/ children \subseteq pks THEN pks
        ELSE Descendants(rows, pks \cup children, fuel - 1)

\* Category.objects.update_or_create(slug=..., defaults={name, description}).
\* name and slug are NOT NULL columns: writing None raises IntegrityError and
\* the statement's savepoint is rolled back.
category_update_or_create(rows, update) ==
    LET matching == {r \in rows : r.slug = update.slug}
    IN  IF update.name = "" \/ (matching = {} /\ update.slug = None)
        THEN [raised |-> "IntegrityError", rows |-> rows, pk |-> 0, created |-> FALSE]
        ELSE IF matching = {}
        THEN [raised |-> "", pk |-> NextPk(rows), created |-> TRUE,
              rows |-> rows \cup {[pk |-> NextPk(rows), slug |-> update.slug,
                                   name |-> update.name,
                                   description |-> update.description, parent |-> 0]}]
        ELSE IF Cardinality(matching) > 1
        THEN [raised |-> "MultipleObjectsReturned", rows |-> rows, pk |-> 0,
              created |-> FALSE]
        ELSE LET old == CHOOSE r \in matching : TRUE
             IN  [raised |-> "", pk |-> old.pk, created |-> FALSE,
                  rows |-> (rows \ {old}) \cup
                           {[old EXCEPT !.name = update.name,
                                        !.description = update.description]}]

\* One pass of the loop over updates: update_or_create, the parent lookup and
\* category.save().  A tree node cannot be moved below itself or below one of
\* its descendants: save() raises InvalidMove.
category_step(rows, update) ==
    With(category_update_or_create(rows, update), LAMBDA u :
    LET parents == {r \in u.rows : r.slug = update.parent_slug}
        missing == Truthy(update.parent_slug) /\ parents = {}
        parent == IF ~Truthy(update.parent_slug) \/ missing
                  THEN 0 ELSE (CHOOSE r \in parents : TRUE).pk
        current == CHOOSE r \in u.rows : r.pk = u.pk
        invalid_move ==
            parent # 0 /\ parent \in Descendants(u.rows, {u.pk}, Cardinality(u.rows))
        \* without a parent_slug the instance keeps the parent it was loaded with
        saved == IF Truthy(update.parent_slug)
                 THEN [current EXCEPT !.parent = parent] ELSE current
    IN  IF u.raised # ""
        THEN [rows |-> rows, errors |-> <<[kind |-> "processing", slug |-> update.slug]>>,
              written |-> "none"]
        ELSE IF invalid_move
        THEN [rows |-> u.rows,
              errors |-> <<[kind |-> "processing", slug |-> update.slug]>>,
              written |-> IF u.created THEN "created" ELSE "updated"]
        ELSE [rows |-> (u.rows \ {current}) \cup {saved},
              errors |-> IF missing
                         THEN <<[kind |-> "parent", slug |-> update.parent_slug]>>
                         ELSE <<>>,
              written |-> IF u.created THEN "created" ELSE "updated"])

RECURSIVE category_loop(_, _)
category_loop(updates, st) ==
    IF updates = <<>> THEN st
    ELSE With(category_step(st.rows, Head(updates)), LAMBDA step :
         With([rows |-> step.rows, errors |-> st.errors \o step.errors,
               written |-> Append(st.written, step.written),
               item_errors |-> Append(st.item_errors, step.errors)],
              LAMBDA st1 : category_loop(Tail(updates), st1)))

\* A success flag that is set whatever the errors are.
always_success(errors) == TRUE

\* success=len(errors) == 0
category_success(errors) == Len(errors) = 0

\* CategoryBulkCreateOrUpdate.mutate under transaction.atomic.
category_mutate(caller, updates, rows) ==
    IF MANAGE_PRODUCTS \notin caller
    THEN [rows |-> rows,
          response |-> [raised |-> "PermissionDenied", success |-> FALSE,
                        errors |-> <<>>, written |-> <<>>, item_errors |-> <<>>]]
    ELSE With(category_loop(updates, [rows |-> rows, errors |-> <<>>,
                                      written |-> <<>>, item_errors |-> <<>>]),
         LAMBDA st :
            [rows |-> st.rows,
             response |-> [raised |-> "", success |-> category_success(st.errors),
                           errors |-> st.errors, written |-> st.written,
                           item_errors |-> st.item_errors]])

(* ----------------------- ProductBulkCreateOrUpdate ---------------------- *)
\* The product types and collections of the shop; no modelled mutation changes them.
ProductTypeSlugs == {<<"t">>}

CollectionIds == {1}

\* ProductInput.  name "" : the key is absent.  attributes is "" (none given),
\* "ok" or "bad" (ProductAttributeAssignmentMixin.clean_input raises).
ProductInput(slug, name, product_type, category, collections, attrs) ==
    [slug |-> slug, name |-> name, product_type |-> product_type,
     category |-> category, collections |-> collections, attributes |-> attrs]

DefaultProductInput == ProductInput(<<"r">>, "n1", <<"t">>, None, <<>>, "")

ProductInputs ==
    LET D == DefaultProductInput
    IN  {D, [D EXCEPT !.name = "n2"], [D EXCEPT !.name = ""],
         [D EXCEPT !.product_type = None], [D EXCEPT !.product_type = <<"c">>],
         [D EXCEPT !.category = <<"r">>],
         [D EXCEPT !.collections = <<1>>], [D EXCEPT !.collections = <<2>>],
         [D EXCEPT !.attributes = "ok"], [D EXCEPT !.attributes = "bad"],
         [D EXCEPT !.slug = <<"e">>], [D EXCEPT !.slug = None]}

ProductBatches == SeqsUpTo(ProductInputs, MaxBatch)

ProductError(field) == [field |-> field]

\* models.Product.objects.filter(slug=slug): the rows .first() chooses from.
\* A lookup by slug that finds no product.
no_products_with_slug(rows, slug) == {}

products_with_slug(rows, slug) == {r \in rows : r.slug = slug}

\* One pass of the loop over products.  The result lists the rows after the
\* pass, the errors it appended and what became of the item.
product_step(rows, category_rows, product) ==
    LET slug == product.slug
        existing == products_with_slug(rows, slug)
        \* .first()
        existing_product ==
            CHOOSE r \in existing : \A o \in existing : r.pk <= o.pk
        category_instances == {c \in category_rows : c.slug = product.category}
        category_pk ==
            (CHOOSE c \in category_instances :
                \A o \in category_instances : c.pk <= o.pk).pk
        base == IF existing # {} THEN existing_product
                ELSE [pk |-> NextPk(rows), slug |-> slug, name |-> "",
                      product_type |-> None, category |-> 0, collections |-> {},
                      attributes |-> ""]
        \* setattr for every remaining key, product_type, category
        instance ==
            [base EXCEPT !.name = IF product.name # "" THEN product.name ELSE @,
                         !.product_type = product.product_type,
                         !.category = IF Truthy(product.category) THEN category_pk ELSE @]
        collection_ids == {product.collections[i] : i \in 1..Len(product.collections)}
        with_collections ==
            IF product.collections # <<>>
            THEN [instance EXCEPT !.collections = collection_ids] ELSE instance
        with_attributes == [with_collections EXCEPT !.attributes = "ok"]
        put(row) == (rows \ existing) \cup (existing \ {base}) \cup {row}
        kind == IF existing # {} THEN "updated" ELSE "created"
        \* success: FALSE where the pass executes success = False
        out(new_rows, errors, listed, saved, success) ==
            [rows |-> new_rows, errors |-> errors, listed |-> listed,
             written |-> IF saved THEN kind ELSE "none", success |-> success]
    IN  IF ~Truthy(slug)
        THEN out(rows, <<ProductError("slug")>>, "none", FALSE, FALSE)
        ELSE IF ~Truthy(product.product_type) \/ product.product_type \notin ProductTypeSlugs
        THEN out(rows, <<ProductError("product_type")>>, "none", FALSE, FALSE)
        ELSE IF Truthy(product.category) /\ category_instances = {}
        THEN out(rows, <<ProductError("category")>>, "none", FALSE, FALSE)
        \* the product is saved; the steps after save() can still raise
        ELSE IF product.collections # <<>> /\ ~(collection_ids \subseteq CollectionIds)
        THEN out(put(instance), <<ProductError("exception")>>, "none", TRUE, FALSE)
        ELSE IF product.attributes = "bad"
        THEN out(put(with_collections), <<ProductError("exception")>>, "none", TRUE, FALSE)
        ELSE IF product.attributes = "ok"
        THEN out(put(with_attributes), <<>>, kind, TRUE, TRUE)
        ELSE out(put(with_collections), <<>>, kind, TRUE, TRUE)

RECURSIVE product_loop(_, _, _)
product_loop(products_data, category_rows, st) ==
    IF products_data = <<>> THEN st
    ELSE With(product_step(st.rows, category_rows, Head(products_data)), LAMBDA step :
         With([rows |-> step.rows, errors |-> st.errors \o step.errors,
               success |-> st.success /\ step.success,
               listed |-> Append(st.listed, step.listed),
               written |-> Append(st.written, step.written),
               item_errors |-> Append(st.item_errors, step.errors)],
              LAMBDA st1 : product_loop(Tail(products_data), category_rows, st1)))

\* ProductBulkCreateOrUpdate.mutate; the loop runs inside transaction.atomic()
\* and nothing in it raises past the loop.
product_mutate(products_data, rows, category_rows) ==
    With(product_loop(products_data, category_rows,
             [rows |-> rows, errors |-> <<>>, success |-> TRUE, listed |-> <<>>,
              written |-> <<>>, item_errors |-> <<>>]),
    LAMBDA st :
        [rows |-> st.rows,
         response |-> [raised |-> "", success |-> st.success, errors |-> st.errors,
                       listed |-> st.listed, written |-> st.written,
                       item_errors |-> st.item_errors]])

(* ---------------------------- ProductBulkUpdate -------------------------- *)
\* queryset.first(): the row with the lowest primary key.
First(rows) == CHOOSE r \in rows : \A o \in rows : r.pk <= o.pk

\* The rows in the order the queryset yields them.
RECURSIVE InOrder(_)
InOrder(rows) ==
    IF rows = {} THEN <<>>
    ELSE LET first == CHOOSE r \in rows : \A o \in rows : r.pk <= o.pk
         IN  <<first>> \o InOrder(rows \ {first})

\* The try block for one product of the queryset: the fields of product_data
\* in turn, product.save() and post_save_action.  `row` is the product as the
\* table holds it, `instance` the object in memory; collections.set and the
\* attribute assignment write to the database at once, every other field is
\* written by save().  The result lists the row after each write.
update_product(row, product_data, category_rows, sink_fails) ==
    LET named == IF product_data.name # ""
                 THEN [row EXCEPT !.name = product_data.name] ELSE row
        type_missing == Truthy(product_data.product_type)
                        /\ product_data.product_type \notin ProductTypeSlugs
        typed == IF Truthy(product_data.product_type) /\ ~type_missing
                 THEN [named EXCEPT !.product_type = product_data.product_type]
                 ELSE named
        category_instances == {c \in category_rows : c.slug = product_data.category}
        category_missing == Truthy(product_data.category) /\ category_instances = {}
        instance == IF Truthy(product_data.category) /\ ~category_missing
                    THEN [typed EXCEPT !.category = First(category_instances).pk]
                    ELSE typed
        field_errors ==
            (IF type_missing THEN <<ProductError("productType")>> ELSE <<>>)
            \o (IF category_missing THEN <<ProductError("category")>> ELSE <<>>)
        collection_ids ==
            {product_data.collections[i] : i \in 1..Len(product_data.collections)}
        sets == product_data.collections # <<>>
        set_raises == sets /\ ~(collection_ids \subseteq CollectionIds)
        with_collections == IF sets /\ ~set_raises
                            THEN [row EXCEPT !.collections = collection_ids] ELSE row
        assigns == product_data.attributes = "ok" /\ ~set_raises
        clean_raises == product_data.attributes = "bad" /\ ~set_raises
        with_attributes == IF assigns THEN [with_collections EXCEPT !.attributes = "ok"]
                           ELSE with_collections
        saved == [instance EXCEPT !.collections = with_attributes.collections,
                                  !.attributes = with_attributes.attributes]
        raised == set_raises \/ clean_raises
        event_raises == ~raised /\ sink_fails
        seen == (IF sets /\ ~set_raises THEN <<with_collections>> ELSE <<>>)
                \o (IF assigns THEN <<with_attributes>> ELSE <<>>)
                \o (IF ~raised THEN <<saved>> ELSE <<>>)
    IN  [row |-> IF raised THEN with_attributes ELSE saved,
         seen |-> seen,
         errors |-> field_errors
                    \o (IF raised \/ event_raises
                        THEN <<ProductError(ToString(row.pk))>> ELSE <<>>),
         \* success = False next to every errors.append
         success |-> field_errors = <<>> /\ ~raised /\ ~event_raises,
         events |-> IF raised \/ event_raises THEN <<>>
                    ELSE <<[event |-> "product_updated", pk |-> row.pk]>>]

\* The loop over the queryset.
RECURSIVE update_loop(_, _, _, _, _)
update_loop(qs, product_updates, category_rows, sink_fails, st) ==
    IF qs = <<>> THEN st
    ELSE
    LET product == Head(qs)
        step == update_product(product, product_updates[product.slug], category_rows,
                               sink_fails)
        tables == [i \in 1..Len(step.seen) |->
                      (st.rows \ {product}) \cup {step.seen[i]}]
    IN  With([rows |-> (st.rows \ {product}) \cup {step.row},
              errors |-> st.errors \o step.errors,
              success |-> st.success /\ step.success,
              seen |-> st.seen \o tables,
              events |-> st.events \o step.events],
             LAMBDA st1 :
                update_loop(Tail(qs), product_updates, category_rows, sink_fails, st1))

\* ProductBulkUpdate.mutate.  The class overrides mutate, so the permission
\* check of BaseMutation.mutate is not run.
bulk_update_mutate(products_data, rows, category_rows, sink_fails) ==
    LET indices == 1..Len(products_data)
        missing_slugs == {i \in indices : ~Truthy(products_data[i].slug)}
        slugs_to_update ==
            SelectSeq(products_data, LAMBDA product : Truthy(product.slug))
        \* product_updates[slug] = product: the last item of a slug stays
        product_updates ==
            [slug \in {products_data[i].slug : i \in indices \ missing_slugs} |->
                products_data[CHOOSE i \in indices :
                                 /\ products_data[i].slug = slug
                                 /\ \A j \in indices :
                                       products_data[j].slug = slug => j <= i]]
        product_slugs_set == {r.slug : r \in rows}
        not_found ==
            SelectSeq(slugs_to_update,
                      LAMBDA product : product.slug \notin product_slugs_set)
        early_errors ==
            [i \in 1..Cardinality(missing_slugs) |-> ProductError("product")]
            \o [i \in 1..Len(not_found) |-> ProductError("product")]
        qs == InOrder({r \in rows : r.slug \in DOMAIN product_updates})
    IN  IF early_errors # <<>>
        THEN [rows |-> rows,
              response |-> [raised |-> "", success |-> FALSE, errors |-> early_errors,
                            seen |-> <<>>, events |-> <<>>]]
        ELSE With(update_loop(qs, product_updates, category_rows, sink_fails,
                      [rows |-> rows, errors |-> <<>>, success |-> TRUE,
                       seen |-> <<>>, events |-> <<>>]),
             LAMBDA st :
                [rows |-> st.rows,
                 response |-> [raised |-> "", success |-> st.success,
                               errors |-> st.errors, seen |-> st.seen,
                               events |-> st.events]])

(* ------------------------- VariantMediaBulkAssign ----------------------- *)
Skus == {"s1", "s2", "s9"}

MediaAlts == {"a1", "a2"}

\* Arguments.media_alts and Arguments.skus
AssignRequests ==
    {[media_alts |-> media_alts, skus |-> skus] :
        media_alts \in SeqsUpTo(MediaAlts, MaxBatch), skus \in SeqsUpTo(Skus, MaxBatch)}

\* A get_or_create that adds a link whether or not the pair has one.
always_create_link(links, media_pk, variant_pk) ==
    links \cup {[pk |-> NextPk(links), media |-> media_pk, variant |-> variant_pk]}

\* media.variant_media.get_or_create(variant=variant)
get_or_create_link(links, media_pk, variant_pk) ==
    IF \E l \in links : l.media = media_pk /\ l.variant = variant_pk
    THEN links
    ELSE links \cup {[pk |-> NextPk(links), media |-> media_pk, variant |-> variant_pk]}

\* The loop over zip(media_alts, skus) inside the transaction.
RECURSIVE assign_loop(_, _, _, _, _)
assign_loop(media_alts, skus, variant_rows, media_rows, st) ==
    IF media_alts = <<>> \/ skus = <<>> \/ st.raised # "" THEN st
    ELSE
    LET variants == {v \in variant_rows : v.sku = Head(skus)}
        variant == First(variants)
        media_of_product ==
            {m \in media_rows : m.product = variant.product /\ m.alt = Head(media_alts)}
        media == First(media_of_product)
        next ==
            IF variants = {}
            THEN [st EXCEPT !.raised = "ValidationError", !.code = "NOT_FOUND",
                            !.field = "skus"]
            ELSE IF media_of_product = {}
            THEN [st EXCEPT !.raised = "ValidationError", !.code = "NOT_FOUND",
                            !.field = "media_alts"]
            ELSE [st EXCEPT !.links = get_or_create_link(st.links, media.pk, variant.pk),
                            !.media_list = Append(st.media_list, media.pk),
                            !.product_variants = Append(st.product_variants, variant.pk)]
    IN  With(next, LAMBDA st1 :
            assign_loop(Tail(media_alts), Tail(skus), variant_rows, media_rows, st1))

\* The listed variants in the order the events are sent for them.  This one
\* sends them last to first.
variants_to_notify_reversed(listed) ==
    [i \in 1..Len(listed) |-> listed[Len(listed) + 1 - i]]

\* for variant in product_variants: the list in its own order.
variants_to_notify(listed) == listed

\* VariantMediaBulkAssign.perform_mutation, behind the permission check of
\* Meta.permissions.
bulk_assign(caller, media_alts, skus, variant_rows, media_rows, links, sink_fails) ==
    LET \* no atomic block was entered before the loop
        steps_of(raised, code) ==
            IF code = "NOT_FOUND"
            THEN delivery(traced_atomic_transaction, <<>>, raised, FALSE)
            ELSE <<>>
        \* written: the links as the loop left them when it raised
        failed(raised, code, field, written) ==
            [response |-> [raised |-> raised, code |-> code, field |-> field,
                           product_variants |-> <<>>, media_list |-> <<>>,
                           events |-> <<>>,
                           delivery |-> steps_of(raised, code)],
             links |-> IF RolledBack(steps_of(raised, code)) THEN links ELSE written]
    IN  IF ~check_permissions(caller, {MANAGE_PRODUCTS})
        THEN failed("PermissionDenied", "", "", links)
        ELSE IF Len(media_alts) # Len(skus)
        THEN failed("ValidationError", "INVALID", "media_alts", links)
        ELSE With(assign_loop(media_alts, skus, variant_rows, media_rows,
                      [raised |-> "", code |-> "", field |-> "", links |-> links,
                       media_list |-> <<>>, product_variants |-> <<>>]),
             LAMBDA st :
                IF st.raised # "" THEN failed(st.raised, st.code, st.field, st.links)
                ELSE With(variants_to_notify(st.product_variants), LAMBDA notified :
                     With([i \in 1..Len(notified) |->
                              [event |-> "product_variant_updated", pk |-> notified[i]]],
                     LAMBDA events :
                     With(delivery(traced_atomic_transaction, events, "", sink_fails),
                     LAMBDA steps :
                     [response |->
                        [raised |-> IF Failed(steps) THEN "EventError" ELSE "",
                         code |-> "", field |-> "",
                         product_variants |-> st.product_variants,
                         media_list |-> st.media_list,
                         events |-> IF Failed(steps) THEN <<>> ELSE events,
                         delivery |-> steps],
                      links |-> IF RolledBack(steps) THEN links ELSE st.links]))))

(* --------------------------- VariantMediaAssign ------------------------- *)
\* Arguments.media_id and Arguments.variant_id: the keys of a media row and of
\* a variant of the catalogue.
MediaIds == {1, 2, 3}

VariantIds == {1, 2}

AssignInputs ==
    {[media_id |-> media_id, variant_id |-> variant_id] :
        media_id \in MediaIds, variant_id \in VariantIds}

\* VariantMediaAssign.perform_mutation, behind the permission check of
\* Meta.permissions.
variant_media_assign(caller, media_id, variant_id, variant_rows, media_rows, links, sink_fails) ==
    LET media == First({m \in media_rows : m.pk = media_id})
        variant == First({v \in variant_rows : v.pk = variant_id})
        \* variant.product.media.filter(pk=media.pk).first()
        media_belongs_to_product == media.product = variant.product
        created == ~\E l \in links : l.media = media.pk /\ l.variant = variant.pk
        events == <<[event |-> "product_variant_updated", pk |-> variant.pk]>>
        failed(raised, code, steps) ==
            [response |-> [raised |-> raised, code |-> code, field |-> "media_id",
                           product_variants |-> <<>>, media_list |-> <<>>,
                           events |-> <<>>, delivery |-> steps],
             links |-> links]
    IN  IF ~check_permissions(caller, {MANAGE_PRODUCTS})
        THEN failed("PermissionDenied", "", <<>>)
        ELSE IF ~media_belongs_to_product
        THEN failed("ValidationError", "NOT_PRODUCTS_IMAGE",
                    delivery(traced_atomic_transaction, <<>>, "ValidationError", FALSE))
        ELSE
        With(get_or_create_link(links, media.pk, variant.pk), LAMBDA linked :
        With(delivery(traced_atomic_transaction, events, "", sink_fails), LAMBDA steps :
        IF ~created
        THEN [response |-> [raised |-> "ValidationError",
                            code |-> "MEDIA_ALREADY_ASSIGNED", field |-> "media_id",
                            product_variants |-> <<>>, media_list |-> <<>>,
                            events |-> <<>>,
                            delivery |-> delivery(traced_atomic_transaction, <<>>,
                                                  "ValidationError", FALSE)],
              \* the block is rolled back
              links |-> IF RolledBack(delivery(traced_atomic_transaction, <<>>,
                                               "ValidationError", FALSE))
                        THEN links ELSE linked]
        ELSE [response |-> [raised |-> IF Failed(steps) THEN "EventError" ELSE "",
                            code |-> "", field |-> "",
                            product_variants |-> <<variant.pk>>,
                            media_list |-> <<media.pk>>,
                            events |-> IF Failed(steps) THEN <<>> ELSE events,
                            delivery |-> steps],
              links |-> IF RolledBack(steps) THEN links ELSE linked]))

(* --------------------- ProductMediaBulkCreateOrUpdate ------------------- *)
\* CHUNK_SIZE = 3000 in the source; scaled down so that a batch of MaxBatch
\* items spans more than one chunk.
CHUNK_SIZE == 1

\* ProductMediaBulkCreateOrUpdateInput: the slug of a product, an alt text
\* and a media_url (None: not given).
MediaInput(product, alt, media_url) ==
    [product |-> product, alt |-> alt, media_url |-> media_url]

MediaInputs ==
    LET D == MediaInput(<<"r">>, "a1", <<"u">>)
    IN  {D, [D EXCEPT !.alt = "a2"], [D EXCEPT !.media_url = None],
         [D EXCEPT !.product = <<"e">>], [D EXCEPT !.product = <<"x">>]}

MediaBatches == SeqsUpTo(MediaInputs, MaxBatch)

\* The chunk writes of one request are numbered from 1; the write with this
\* number raises a database error, 0 stands for none.
ChunkFailures == 0..MaxBatch

\* A row of models.ProductMedia.
MediaRow(pk, product, external_url, alt) ==
    [pk |-> pk, product |-> product, external_url |-> external_url, alt |-> alt,
     type |-> "IMAGE"]

\* A pass over the inputs that leaves out the inputs whose product is not
\* found instead of raising for them.
RECURSIVE media_collect_skip_missing(_, _, _, _)
media_collect_skip_missing(products_input, product_rows, media_rows, st) ==
    IF products_input = <<>> THEN st
    ELSE
    LET product_input == Head(products_input)
        found == {p \in product_rows : p.slug = product_input.product}
        product == First(found)
        existing == {m \in media_rows : m.product = product.pk
                                          /\ m.external_url = product_input.media_url}
        next ==
            IF found = {}
            THEN st
            ELSE IF ~Truthy(product_input.media_url)
            THEN [st EXCEPT !.product = product.pk]
            ELSE IF existing # {}
            THEN [st EXCEPT !.product = product.pk,
                     !.to_update = Append(@, [First(existing) EXCEPT
                                                 !.alt = product_input.alt,
                                                 !.type = "IMAGE"])]
            ELSE [st EXCEPT !.product = product.pk,
                     !.to_create = Append(@, MediaRow(0, product.pk,
                                                     product_input.media_url,
                                                     product_input.alt))]
    IN  With(next, LAMBDA st1 :
            media_collect_skip_missing(Tail(products_input), product_rows,
                                       media_rows, st1))

\* The loop over products: the media to create and to update, and the product
\* the loop variable is left bound to (0: never bound).
RECURSIVE media_collect(_, _, _, _)
media_collect(products_input, product_rows, media_rows, st) ==
    IF products_input = <<>> \/ st.raised # "" THEN st
    ELSE
    LET product_input == Head(products_input)
        \* product_map.get(product_slug)
        found == {p \in product_rows : p.slug = product_input.product}
        product == First(found)
        existing == {m \in media_rows : m.product = product.pk
                                          /\ m.external_url = product_input.media_url}
        next ==
            IF found = {}
            THEN [st EXCEPT !.raised = "ValidationError", !.code = "NOT_FOUND"]
            ELSE IF ~Truthy(product_input.media_url)
            THEN [st EXCEPT !.product = product.pk]
            ELSE IF existing # {}
            THEN [st EXCEPT !.product = product.pk,
                     !.to_update = Append(@, [First(existing) EXCEPT
                                                 !.alt = product_input.alt,
                                                 !.type = "IMAGE"])]
            ELSE [st EXCEPT !.product = product.pk,
                     !.to_create = Append(@, MediaRow(0, product.pk,
                                                     product_input.media_url,
                                                     product_input.alt))]
    IN  With(next, LAMBDA st1 :
            media_collect(Tail(products_input), product_rows, media_rows, st1))

\* models.ProductMedia.objects.bulk_create(chunk)
RECURSIVE media_bulk_create(_, _)
media_bulk_create(chunk, rows) ==
    IF chunk = <<>> THEN rows
    ELSE With(rows \cup {[Head(chunk) EXCEPT !.pk = NextPk(rows)]},
              LAMBDA rows1 : media_bulk_create(Tail(chunk), rows1))

\* models.ProductMedia.objects.bulk_update(chunk, ["alt", "type"]): one UPDATE
\* whose CASE takes, for a row, the first listed instance with its pk.
media_bulk_update(chunk, rows) ==
    {IF \E i \in 1..Len(chunk) : chunk[i].pk = r.pk
     THEN LET first == chunk[CHOOSE i \in 1..Len(chunk) :
                                /\ chunk[i].pk = r.pk
                                /\ \A j \in 1..(i - 1) : chunk[j].pk # r.pk]
          IN  [r EXCEPT !.alt = first.alt, !.type = first.type]
     ELSE r : r \in rows}

\* bulk_create_chunks and bulk_update_chunks: media_list[i:i + CHUNK_SIZE] is
\* written chunk by chunk.  No transaction surrounds the writes, so each chunk
\* is committed as it is written; `seen` lists the table after each of them.
RECURSIVE write_chunks(_, _, _, _, _)
write_chunks(kind, media_list, chunk_size, fails_at, st) ==
    IF media_list = <<>> \/ st.raised # "" THEN st
    ELSE
    LET size == IF chunk_size < Len(media_list) THEN chunk_size ELSE Len(media_list)
        chunk == SubSeq(media_list, 1, size)
        rest == SubSeq(media_list, size + 1, Len(media_list))
        rows1 == IF kind = "create" THEN media_bulk_create(chunk, st.rows)
                 ELSE media_bulk_update(chunk, st.rows)
        next ==
            IF st.writes + 1 = fails_at
            THEN [st EXCEPT !.raised = "DatabaseError", !.writes = @ + 1]
            ELSE [st EXCEPT !.rows = rows1, !.writes = @ + 1,
                            !.seen = Append(@, rows1)]
    IN  With(next, LAMBDA st1 : write_chunks(kind, rest, chunk_size, fails_at, st1))

\* ProductMediaBulkCreateOrUpdate.perform_mutation, behind the permission
\* check of Meta.permissions, with the given chunk size.
media_perform_mutation(caller, products_input, chunk_size, product_rows, media_rows, fails_at, sink_fails) ==
    LET failed(raised, code, rows, seen, steps) ==
            [response |-> [raised |-> raised, code |-> code, product |-> 0,
                           media |-> <<>>, events |-> <<>>, delivery |-> steps,
                           seen |-> seen],
             media_rows |-> rows]
    IN  IF ~check_permissions(caller, {MANAGE_PRODUCTS})
        THEN failed("PermissionDenied", "", media_rows, <<>>, <<>>)
        ELSE
        With(media_collect(products_input, product_rows, media_rows,
                 [raised |-> "", code |-> "", product |-> 0,
                  to_create |-> <<>>, to_update |-> <<>>]),
        LAMBDA listed :
        IF listed.raised # ""
        THEN failed(listed.raised, listed.code, media_rows, <<>>, <<>>)
        ELSE
        With(write_chunks("create", listed.to_create, chunk_size, fails_at,
                 [raised |-> "", rows |-> media_rows, writes |-> 0, seen |-> <<>>]),
        LAMBDA created :
        With(write_chunks("update", listed.to_update, chunk_size, fails_at, created),
        LAMBDA written :
        LET events == <<[event |-> "product_updated", pk |-> listed.product],
                        [event |-> "product_media_created", pk |-> 0]>>
            steps == delivery(FALSE, events, "", sink_fails)
        IN  IF written.raised # ""
            THEN failed(written.raised, "", written.rows, written.seen, <<>>)
            \* the loop variable product was never bound
            ELSE IF listed.product = 0
            THEN failed("UnboundLocalError", "", written.rows, written.seen, <<>>)
            ELSE IF Failed(steps)
            THEN failed("EventError", "", written.rows, written.seen, steps)
            ELSE [response |-> [raised |-> "", code |-> "", product |-> listed.product,
                                media |-> listed.to_create \o listed.to_update,
                                events |-> events, delivery |-> steps,
                                seen |-> written.seen],
                  media_rows |-> written.rows])))

(* ------------------------------- actions ------------------------------- *)
NoCall == [op |-> "none"]

Init ==
    /\ attributes = {}
    /\ attribute_values = {}
    /\ categories = {}
    /\ products = {}
    /\ product_variants = {}
    /\ product_media = {}
    /\ variant_media = {}
    /\ call = NoCall
    /\ phase = "idle"
    /\ calls = 0

\* A store that already holds two products, a variant of each, and their media.
InitCatalogue ==
    /\ attributes = {}
    /\ attribute_values = {}
    /\ categories = {}
    /\ products = {[pk |-> 1, slug |-> <<"r">>, name |-> "n1", product_type |-> <<"t">>,
                     category |-> 0, collections |-> {}, attributes |-> ""],
                    [pk |-> 2, slug |-> <<"e">>, name |-> "n1", product_type |-> <<"t">>,
                     category |-> 0, collections |-> {}, attributes |-> ""]}
    /\ product_variants = {[pk |-> 1, sku |-> "s1", product |-> 1],
                            [pk |-> 2, sku |-> "s2", product |-> 2]}
    /\ product_media = {MediaRow(1, 1, None, "a1"), MediaRow(2, 1, None, "a2"),
                         MediaRow(3, 2, None, "a1")}
    /\ variant_media = {}
    /\ call = NoCall
    /\ phase = "idle"
    /\ calls = 0

\* The tables as a request finds them.
Tables ==
    [attributes |-> attributes, attribute_values |-> attribute_values,
     categories |-> categories, products |-> products,
     product_variants |-> product_variants, product_media |-> product_media,
     variant_media |-> variant_media]

\* The effect of one request on the tables, and its response.
Serve(op, caller, input, error_policy, sink_fails, fails_at) ==
    CASE op = "attributeBulkCreateOrUpdate" ->
            With(perform_mutation(caller, input, error_policy, attributes,
                                  attribute_values, sink_fails),
                 LAMBDA out : [Tables EXCEPT !.attributes = out.rows,
                                             !.attribute_values = out.value_rows]
                              @@ [response |-> out.response])
      [] op = "categoryBulkCreateOrUpdate" ->
            With(category_mutate(caller, input, categories),
                 LAMBDA out : [Tables EXCEPT !.categories = out.rows]
                              @@ [response |-> out.response])
      [] op = "variantMediaBulkAssign" ->
            With(bulk_assign(caller, input.media_alts, input.skus, product_variants,
                             product_media, variant_media, sink_fails),
                 LAMBDA out : [Tables EXCEPT !.variant_media = out.links]
                              @@ [response |-> out.response])
      [] op = "variantMediaAssign" ->
            With(variant_media_assign(caller, input.media_id, input.variant_id,
                                      product_variants, product_media, variant_media,
                                      sink_fails),
                 LAMBDA out : [Tables EXCEPT !.variant_media = out.links]
                              @@ [response |-> out.response])
      [] op = "productMediaBulkCreateOrUpdate" ->
            With(media_perform_mutation(caller, input, CHUNK_SIZE, products,
                                        product_media, fails_at, sink_fails),
                 LAMBDA out : [Tables EXCEPT !.product_media = out.media_rows]
                              @@ [response |-> out.response])
      [] op = "productBulkUpdate" ->
            With(bulk_update_mutate(input, products, categories, sink_fails),
                 LAMBDA out : [Tables EXCEPT !.products = out.rows]
                              @@ [response |-> out.response])
      [] OTHER ->
            With(product_mutate(input, products, categories),
                 LAMBDA out : [Tables EXCEPT !.products = out.rows]
                              @@ [response |-> out.response])

\* A request is served from its arrival to its response; `first` is the record
\* of the request this one repeats, if it repeats one.  sink_fails tells
\* whether the event manager raises during this request, fails_at which chunk
\* write the database refuses.
Request(op, caller, input, error_policy, first, sink_fails, fails_at) ==
    /\ calls < MaxCalls
    /\ \E out \in {Serve(op, caller, input, error_policy, sink_fails, fails_at)} :
          /\ attributes' = out.attributes
          /\ attribute_values' = out.attribute_values
          /\ categories' = out.categories
          /\ products' = out.products
          /\ product_variants' = out.product_variants
          /\ product_media' = out.product_media
          /\ variant_media' = out.variant_media
          /\ call' = [op |-> op, caller |-> caller, input |-> input,
                      error_policy |-> error_policy, before |-> Tables,
                      response |-> out.response, first |-> first]
    /\ phase' = "done"
    /\ calls' = calls + 1

AttributeBulkCreateOrUpdate ==
    /\ phase = "idle"
    /\ \E caller \in Callers, attributes_data \in AttributeBatches,
          error_policy \in ErrorPolicies, sink_fails \in BOOLEAN :
          Request("attributeBulkCreateOrUpdate", caller, attributes_data,
                  error_policy, NoCall, sink_fails, 0)

\* CategoryBulkCreateOrUpdate and ProductBulkCreateOrUpdate take no error
\* policy: the documented default applies.
CategoryBulkCreateOrUpdate ==
    /\ phase = "idle"
    /\ \E caller \in Callers, updates \in CategoryBatches :
          Request("categoryBulkCreateOrUpdate", caller, updates, REJECT_EVERYTHING,
                  NoCall, FALSE, 0)

ProductBulkCreateOrUpdate ==
    /\ phase = "idle"
    /\ \E caller \in Callers, products_data \in ProductBatches :
          Request("productBulkCreateOrUpdate", caller, products_data,
                  REJECT_EVERYTHING, NoCall, FALSE, 0)

\* VariantMediaBulkAssign takes no error policy.
VariantMediaBulkAssign ==
    /\ phase = "idle"
    /\ \E caller \in Callers, request \in AssignRequests, sink_fails \in BOOLEAN :
          Request("variantMediaBulkAssign", caller, request, REJECT_EVERYTHING, NoCall,
                  sink_fails, 0)

\* VariantMediaAssign takes no error policy.
VariantMediaAssign ==
    /\ phase = "idle"
    /\ \E caller \in Callers, request \in AssignInputs, sink_fails \in BOOLEAN :
          Request("variantMediaAssign", caller, request, REJECT_EVERYTHING, NoCall,
                  sink_fails, 0)

\* The two slug generators applied to the fields of one nested value; the
\* slugs of the attribute's stored values are slug_list.
SlugNames == {None, <<"R">>, <<"e">>}

SlugRefs == {None, <<"r">>, <<"e">>}

SlugValues == {None, <<"c">>, <<"!">>}

SlugCodes == {None, <<"2">>, <<"3">>}

SlugLists == {{}, {<<"r">>}}

GenerateSlug ==
    /\ phase = "idle"
    /\ calls < MaxCalls
    /\ \E name \in SlugNames, ref \in SlugRefs, value \in SlugValues,
          code \in SlugCodes, slug_list \in SlugLists :
          call' = [op |-> "generate_slug",
                   input |-> ValueInput(name, ref, value, code),
                   slug_list |-> slug_list,
                   response |->
                      [check_generation_slug_base |->
                          check_generation_slug_base(name, ref, value, code),
                       check_generation_slug |->
                          check_generation_slug(name, ref, value, code),
                       generate_slug_base |->
                          generate_slug_base(ref, value, name, code),
                       generate_slug |->
                          generate_slug(ref, value, name, code, slug_list)]]
    /\ phase' = "done"
    /\ calls' = calls + 1
    /\ UNCHANGED <<attributes, attribute_values, categories, products,
                   product_variants, product_media, variant_media>>

\* The items of a ProductBulkUpdate: those of ProductBulkCreateOrUpdate and an
\* item with the slug of a product that never exists.
UpdateInputs == ProductInputs \cup {[DefaultProductInput EXCEPT !.slug = <<"x">>]}

UpdateBatches == SeqsUpTo(UpdateInputs, MaxBatch)

\* ProductBulkUpdate takes no error policy.
ProductBulkUpdate ==
    /\ phase = "idle"
    /\ \E caller \in Callers, products_data \in UpdateBatches, sink_fails \in BOOLEAN :
          Request("productBulkUpdate", caller, products_data, REJECT_EVERYTHING,
                  NoCall, sink_fails, 0)

\* ProductMediaBulkCreateOrUpdate takes no error policy.
ProductMediaBulkCreateOrUpdate ==
    /\ phase = "idle"
    /\ \E caller \in Callers, products_input \in MediaBatches,
          sink_fails \in BOOLEAN, fails_at \in ChunkFailures :
          Request("productMediaBulkCreateOrUpdate", caller, products_input,
                  REJECT_EVERYTHING, NoCall, sink_fails, fails_at)

\* The client sends the request it just got answered once more.
Repeat ==
    /\ phase = "done"
    /\ call.first = NoCall
    /\ Request(call.op, call.caller, call.input, call.error_policy, call, FALSE, 0)

(* ------------- two ProductBulkCreateOrUpdate calls at once --------------- *)
\* Each call runs its loop inside its own transaction.atomic() block (line 56)
\* on its own connection.  A call reads the rows committed so far
\* (READ COMMITTED), keeps what it wrote to itself until the block exits, and
\* takes no lock between the lookup (line 91) and save() (lines 111, 154).
Transactions == {1, 2}

\* Both calls carry one item with the same slug.
ConcurrentInputs == {DefaultProductInput, [DefaultProductInput EXCEPT !.name = "n2"]}

NoProduct == [pk |-> 0]

\* The unique index on the slug column of the product table: an INSERT of a
\* slug that a committed row already carries raises IntegrityError.
violates_unique_slug(rows, slug) == \E r \in rows : r.slug = slug

\* Both requests arrive; each opens its transaction.
ConcurrentRequests ==
    /\ phase = "idle"
    /\ calls < MaxCalls
    /\ \E first \in ConcurrentInputs, second \in ConcurrentInputs :
        call' = [op |-> "productBulkCreateOrUpdate",
                 input |-> <<first, second>>, before |-> Tables,
                 txn |-> [t \in Transactions |->
                            [pc |-> "begin", existing_product |-> NoProduct,
                             pending |-> {}, listed |-> "none", errors |-> <<>>,
                             aborted |-> FALSE]]]
    /\ phase' = "running"
    /\ calls' = calls + 1
    /\ UNCHANGED <<attributes, attribute_values, categories, products,
                   product_variants, product_media, variant_media>>

\* existing_product = models.Product.objects.filter(slug=slug).first()
CheckExisting ==
    /\ phase = "running"
    /\ \E t \in Transactions :
        /\ call.txn[t].pc = "begin"
        /\ LET existing == products_with_slug(products, call.input[t].slug)
           IN  call' = [call EXCEPT
                   !.txn[t].pc = "checked",
                   !.txn[t].existing_product =
                       IF existing # {} THEN First(existing) ELSE NoProduct]
    /\ UNCHANGED <<attributes, attribute_values, categories, products,
                   product_variants, product_media, variant_media, phase, calls>>

\* The rest of the pass over the item: the branch the lookup chose, save() and
\* the append to the created or updated list.  The write waits while the other
\* transaction holds an uncommitted write of the same slug.
SaveProduct ==
    /\ phase = "running"
    /\ \E t \in Transactions :
        LET me == call.txn[t]
            other == call.txn[3 - t]
            product == call.input[t]
            view == IF me.existing_product = NoProduct THEN {} ELSE {me.existing_product}
            step == product_step(view, categories, product)
            instance == CHOOSE r \in step.rows : TRUE
            inserted == [instance EXCEPT !.pk = NextPk(products \cup other.pending)]
        IN  /\ me.pc = "checked"
            /\ ~(other.pc = "saved" /\ \E r \in other.pending : r.slug = product.slug)
            /\ call' =
                 IF me.existing_product # NoProduct
                 THEN [call EXCEPT !.txn[t].pc = "saved",
                                   !.txn[t].pending = step.rows,
                                   !.txn[t].listed = step.listed,
                                   !.txn[t].errors = step.errors]
                 ELSE IF violates_unique_slug(products, product.slug)
                 \* except Exception as e: the insert raised
                 THEN [call EXCEPT !.txn[t].pc = "saved",
                                   !.txn[t].aborted = TRUE,
                                   !.txn[t].errors = <<ProductError("exception")>>]
                 ELSE [call EXCEPT !.txn[t].pc = "saved",
                                   !.txn[t].pending = {inserted},
                                   !.txn[t].listed = step.listed,
                                   !.txn[t].errors = step.errors]
    /\ UNCHANGED <<attributes, attribute_values, categories, products,
                   product_variants, product_media, variant_media, phase, calls>>

\* The atomic block exits: its writes become visible, unless a statement of
\* the transaction failed, and then the database discards them.
CommitTransaction ==
    /\ \E t \in Transactions :
        LET me == call.txn[t]
            replaced == {r \in products : \E w \in me.pending : w.pk = r.pk}
        IN  /\ phase = "running"
            /\ me.pc = "saved"
            /\ products' = IF me.aborted THEN products
                           ELSE (products \ replaced) \cup me.pending
            /\ call' = [call EXCEPT !.txn[t].pc = "committed"]
            /\ phase' = IF call.txn[3 - t].pc = "committed" THEN "done" ELSE "running"
    /\ UNCHANGED <<attributes, attribute_values, categories, product_variants,
                   product_media, variant_media, calls>>

\* The response has been delivered; the request's data is discarded.
Respond ==
    /\ phase = "done"
    /\ phase' = "idle"
    /\ call' = NoCall
    /\ UNCHANGED <<attributes, attribute_values, categories, products,
                   product_variants, product_media, variant_media, calls>>

Next ==
    \/ AttributeBulkCreateOrUpdate
    \/ CategoryBulkCreateOrUpdate
    \/ ProductBulkCreateOrUpdate
    \/ Repeat
    \/ Respond

Spec == Init /\ [][Next]_vars

\* The attribute mutation on its own.
NextAttribute == AttributeBulkCreateOrUpdate \/ Repeat \/ Respond

SpecAttribute == Init /\ [][NextAttribute]_vars

\* The two mutations that emit lifecycle events, on a store with a catalogue.
NextEvents ==
    \/ AttributeBulkCreateOrUpdate
    \/ VariantMediaBulkAssign
    \/ ProductMediaBulkCreateOrUpdate
    \/ ProductBulkUpdate
    \/ Repeat
    \/ Respond

SpecEvents == InitCatalogue /\ [][NextEvents]_vars

\* The category and product bulk mutations, on a store with a catalogue.
NextCatalogue ==
    \/ CategoryBulkCreateOrUpdate
    \/ ProductBulkCreateOrUpdate
    \/ ProductBulkUpdate
    \/ Repeat
    \/ Respond

SpecCatalogue == InitCatalogue /\ [][NextCatalogue]_vars

\* The two mutations that link media and variants.
NextAssign ==
    \/ VariantMediaAssign
    \/ VariantMediaBulkAssign
    \/ Repeat
    \/ Respond

SpecAssign == InitCatalogue /\ [][NextAssign]_vars

\* Two ProductBulkCreateOrUpdate calls whose transactions interleave.
NextConcurrent ==
    \/ ConcurrentRequests
    \/ CheckExisting
    \/ SaveProduct
    \/ CommitTransaction
    \/ Respond

SpecConcurrent == Init /\ [][NextConcurrent]_vars

\* The slug generators on their own.
NextSlug ==
    \/ GenerateSlug
    \/ Respond

SpecSlug == Init /\ [][NextSlug]_vars

(* ------------------------------ properties ----------------------------- *)
\* A response of the attribute mutation is held, and the event manager did
\* not raise.
AttributeCall ==
    /\ phase = "done"
    /\ call.op = "attributeBulkCreateOrUpdate"
    /\ ~Failed(call.response.delivery)

Returned == call.response.raised = ""

Indices == 1..Len(call.input)

HasError(i) == call.response.index_error_map[i] # <<>>

\* C1: under REJECT_EVERYTHING, when some index has errors, the call leaves
\* the attribute table and the attribute-value table as it found them.
C1_RejectEverythingLeavesStore ==
    (AttributeCall /\ call.error_policy = REJECT_EVERYTHING
        /\ \E i \in Indices : HasError(i))
    => /\ attributes = call.before.attributes
       /\ attribute_values = call.before.attribute_values

\* An item whose own fields or nested values break a rule that yields an error.
InvalidItem(caller, item) ==
    \/ ~Truthy(item.slug)
    \/ item.available_in_grid
    \/ \E k \in 1..Len(item.values) : item.values[k].name = None
    \/ item.type = PRODUCT_TYPE /\ MANAGE_PRODUCT_TYPES_AND_ATTRIBUTES \notin caller
    \/ item.type = PAGE_TYPE /\ MANAGE_PAGE_TYPES_AND_ATTRIBUTES \notin caller
    \/ item.input_type = REFERENCE /\ ~Truthy(item.entity_type)
    \/ item.filterable_in_dashboard /\ item.input_type # DROPDOWN

\* C2: under REJECT_EVERYTHING, when some index has errors, count is 0, every
\* instance of the response is null, and the errors returned for an index are
\* the errors collected for it, non-empty only for invalid items.
C2_RejectEverythingResponse ==
    (AttributeCall /\ call.error_policy = REJECT_EVERYTHING
        /\ \E i \in Indices : HasError(i))
    => /\ Returned
       /\ call.response.count = 0
       /\ Len(call.response.results) = Len(call.input)
       /\ \A i \in Indices :
            /\ call.response.results[i].instance = NoInstance
            /\ call.response.results[i].errors = call.response.index_error_map[i]
            /\ HasError(i) => InvalidItem(call.caller, call.input[i])

\* The row of the attribute table that an instance of the response stands for.
Committed(instance, slug) ==
    \E r \in attributes : r.pk = instance.pk /\ r.slug = slug

\* C3: under REJECT_FAILED_ROWS the instance is null exactly at the indices
\* with errors, every other index carries the row stored under its slug, and
\* count is the number of indices without errors.
C3_RejectFailedRowsResponse ==
    (AttributeCall /\ call.error_policy = REJECT_FAILED_ROWS
        /\ check_permissions(call.caller, {MANAGE_PRODUCT_TYPES_AND_ATTRIBUTES,
                                            MANAGE_PAGE_TYPES_AND_ATTRIBUTES}))
    => /\ Returned
       /\ Len(call.response.results) = Len(call.input)
       /\ \A i \in Indices :
            /\ (call.response.results[i].instance = NoInstance) <=> HasError(i)
            /\ ~HasError(i) =>
                  Committed(call.response.results[i].instance, call.input[i].slug)
       /\ call.response.count = Cardinality({i \in Indices : ~HasError(i)})

\* C4: under REJECT_FAILED_ROWS no attribute is created or updated for an index
\* whose final error list is non-empty.
C4_FailedRowNotWritten ==
    (AttributeCall /\ Returned /\ call.error_policy = REJECT_FAILED_ROWS)
    => \A i \in Indices : HasError(i) => call.response.written[i] = "none"

\* C5: for a caller allowed to use the mutation, every batch under either
\* policy is answered with one result per item, and result i holds the
\* instance and the errors of item i.
C5_ResultPerItem ==
    (AttributeCall /\ check_permissions(call.caller,
                          {MANAGE_PRODUCT_TYPES_AND_ATTRIBUTES,
                           MANAGE_PAGE_TYPES_AND_ATTRIBUTES}))
    => /\ Returned
       /\ Len(call.response.results) = Len(call.input)
       /\ \A i \in Indices :
            /\ call.response.results[i].errors = call.response.index_error_map[i]
            /\ call.response.results[i].instance # NoInstance =>
                  call.response.results[i].instance.slug = call.input[i].slug

\* The table a mutation writes its entities to.
TableOf(op, tables) ==
    CASE op = "attributeBulkCreateOrUpdate" -> tables.attributes
      [] op = "categoryBulkCreateOrUpdate" -> tables.categories
      [] OTHER -> tables.products

\* The errors a response reports, whatever the mutation.
ReportsNoError(c) ==
    IF c.op = "attributeBulkCreateOrUpdate"
    THEN \A i \in 1..Len(c.input) : c.response.index_error_map[i] = <<>>
    ELSE c.response.errors = <<>>

\* A request with a valid batch of new entities: it is answered without any
\* error, every item has a slug, the slugs are pairwise distinct, and none of
\* them is in the table when the request arrives.
ValidNewBatch(c) ==
    /\ c.response.raised = ""
    /\ ReportsNoError(c)
    /\ \A i \in 1..Len(c.input) :
          /\ Truthy(c.input[i].slug)
          /\ \A r \in TableOf(c.op, c.before) : r.slug # c.input[i].slug
          /\ \A j \in 1..Len(c.input) : c.input[i].slug = c.input[j].slug => i = j

C7_BatchDuplicatesBothCreated ==
    (AttributeCall /\ Returned)
    => /\ call.before.attributes = {} =>
            \A i, j \in Indices :
                (i < j /\ Truthy(call.input[i].slug)
                       /\ call.input[i].slug = call.input[j].slug
                       /\ ~HasError(i) /\ ~HasError(j))
                => /\ call.response.slugs[i] # call.response.slugs[j]
                   /\ call.response.written[i] = "created"
                   /\ call.response.written[j] = "created"
       /\ \A j \in Indices :
            call.response.written[j] = "updated"
            => \E r \in call.before.attributes : r.slug = call.response.slugs[j]

\* C8: no two rows of a table share a slug: attributes, categories and products
\* over the whole table, attribute values within their attribute.
C8_SlugsUnique ==
    /\ \A r1, r2 \in attributes : r1.slug = r2.slug => r1 = r2
    /\ \A v1, v2 \in attribute_values :
          (v1.attribute = v2.attribute /\ v1.slug = v2.slug) => v1 = v2
    /\ \A c1, c2 \in categories : c1.slug = c2.slug => c1 = c2
    /\ \A p1, p2 \in products : p1.slug = p2.slug => p1 = p2

\* C8 witness: a batch that named one slug twice has been committed, and values
\* with one slug are stored under two attributes.
C8_Witness ==
    /\ phase = "done" /\ Returned /\ Len(call.input) = 2
    /\ call.input[1].slug = call.input[2].slug /\ Truthy(call.input[1].slug)
    /\ call.response.written[2] # "none"
    /\ \E v1, v2 \in attribute_values : v1.attribute # v2.attribute /\ v1.slug = v2.slug

\* The rows of a batch's table that item i of the held request was written to,
\* before and after the request.
RowBefore(i) == {r \in TableOf(call.op, call.before) : r.slug = call.input[i].slug}

RowAfter(i) == {r \in TableOf(call.op, Tables) : r.slug = call.input[i].slug}

SoleItemOfSlug(i) ==
    \A j \in Indices : call.input[j].slug = call.input[i].slug => j = i

\* C9: an item is an UPDATE exactly when its slug matched a record that was
\* there before the call, else a CREATE; an UPDATE leaves the fields the item
\* did not supply as they were.
C9_UpdateIffExistedBefore ==
    (phase = "done" /\ Returned)
    => \A i \in Indices :
         /\ call.response.written[i] # "none" =>
               (call.response.written[i] = "updated" <=> RowBefore(i) # {})
         /\ (call.op = "categoryBulkCreateOrUpdate"
               /\ call.response.written[i] = "updated" /\ SoleItemOfSlug(i)
               /\ call.input[i].description = "")
            => \A old \in RowBefore(i), new \in RowAfter(i) :
                  new.description = old.description
         /\ (call.op = "productBulkCreateOrUpdate"
               /\ call.response.written[i] = "updated" /\ SoleItemOfSlug(i)
               /\ call.input[i].name = "")
            => \A old \in RowBefore(i), new \in RowAfter(i) : new.name = old.name

\* The validation rules of an attribute item, for the caller of the request.
PassesRules(caller, item) ==
    /\ (item.type = PRODUCT_TYPE => MANAGE_PRODUCT_TYPES_AND_ATTRIBUTES \in caller)
    /\ (item.type = PAGE_TYPE => MANAGE_PAGE_TYPES_AND_ATTRIBUTES \in caller)
    /\ (item.input_type = REFERENCE => Truthy(item.entity_type))
    /\ (item.filterable_in_dashboard => item.input_type = DROPDOWN)
    /\ ~item.available_in_grid

\* C10: an attribute is created or updated for an index only after the
\* validation rules have run for the index and the item has passed them.
C10_WrittenOnlyIfValidated ==
    (AttributeCall /\ Returned)
    => \A i \in Indices :
          call.response.written[i] # "none"
          => /\ call.response.validated[i]
             /\ PassesRules(call.caller, call.input[i])

\* A row was written for item i of a request and the request's transaction
\* committed.
ItemCommitted(response, i) == response.raised = "" /\ response.written[i] # "none"

\* C11: in a request with a failing item, every step that validates an item
\* and the look at the error policy come before the first write; and in a batch
\* of two items,
\* whether an item is committed is the same when the two items swap places.
C11_ValidatedBeforeAnyWrite ==
    AttributeCall
    => /\ (\E i \in Indices : HasError(i)) =>
            \A p, q \in 1..Len(call.response.log) :
                (p < q /\ call.response.log[p].step = "write")
                => call.response.log[q].step = "write"
       /\ Len(call.input) = 2 =>
            With(perform_mutation(call.caller, <<call.input[2], call.input[1]>>,
                                  call.error_policy, call.before.attributes,
                                  call.before.attribute_values, FALSE),
                 LAMBDA swapped :
                    /\ ItemCommitted(call.response, 1) <=> ItemCommitted(swapped.response, 2)
                    /\ ItemCommitted(call.response, 2) <=> ItemCommitted(swapped.response, 1))

\* The caller holds the permission the attribute mutation asks for as a whole.
BatchPermitted ==
    check_permissions(call.caller, {MANAGE_PRODUCT_TYPES_AND_ATTRIBUTES,
                                    MANAGE_PAGE_TYPES_AND_ATTRIBUTES})

\* The caller lacks the permission for the declared type of the item.
LacksTypePermission(caller, item) ==
    \/ item.type = PRODUCT_TYPE /\ MANAGE_PRODUCT_TYPES_AND_ATTRIBUTES \notin caller
    \/ item.type = PAGE_TYPE /\ MANAGE_PAGE_TYPES_AND_ATTRIBUTES \notin caller

\* C12: an item for whose type the caller lacks the permission gets a single
\* error of the REQUIRED class, no attribute is created or updated for it, and
\* the call still answers every item of the batch.
C12_TypePermissionPerItem ==
    (AttributeCall /\ BatchPermitted)
    => \A i \in Indices :
          LacksTypePermission(call.caller, call.input[i])
          => /\ Returned
             /\ Len(call.response.results) = Len(call.input)
             /\ Len(call.response.results[i].errors) = 1
             /\ call.response.results[i].errors[1].code = "REQUIRED"
             /\ call.response.written[i] = "none"

\* The item breaks one of the business rules of clean_attribute_input.
BreaksBusinessRule(caller, item) ==
    \/ LacksTypePermission(caller, item)
    \/ item.input_type = REFERENCE /\ ~Truthy(item.entity_type)
    \/ item.filterable_in_dashboard /\ item.input_type # DROPDOWN

\* C13: a batch with an item that breaks a business rule is answered without
\* an exception, with a result for every item and an error at that item.
C13_RuleFailureNeverAborts ==
    (AttributeCall /\ BatchPermitted
        /\ \E i \in Indices : BreaksBusinessRule(call.caller, call.input[i]))
    => /\ Returned
       /\ Len(call.response.results) = Len(call.input)
       /\ \A i \in Indices :
            BreaksBusinessRule(call.caller, call.input[i])
            => call.response.results[i].errors # <<>>

\* The caller holds the permission the held request's mutation needs as a whole.
HasBatchPermission ==
    IF call.op = "attributeBulkCreateOrUpdate" THEN BatchPermitted
    ELSE MANAGE_PRODUCTS \in call.caller

\* C14: a bulk request of a caller without the batch-level permission fails as
\* a whole and leaves every table as it was.
C14_BatchPermissionRequired ==
    (phase = "done" /\ ~HasBatchPermission)
    => /\ call.response.raised # ""
       /\ Tables = call.before

\* Item i of the held attribute request names a slug that neither the store
\* nor an earlier item of the batch holds.
NewItem(i) ==
    /\ Truthy(call.input[i].slug)
    /\ \A r \in call.before.attributes : r.slug # call.input[i].slug
    /\ \A j \in 1..(i - 1) : call.input[j].slug # call.input[i].slug

\* C15: a new item that sets filterable_in_dashboard on an input type the
\* configuration table does not allow it for gets an INVALID error whose path
\* names the field, and no attribute is written for it.
C15_SettingNotAllowedForInputType ==
    (AttributeCall /\ BatchPermitted)
    => \A i \in Indices :
          (/\ NewItem(i)
           /\ ~LacksTypePermission(call.caller, call.input[i])
           /\ ~call.input[i].available_in_grid
           /\ call.input[i].input_type = REFERENCE => Truthy(call.input[i].entity_type)
           /\ call.input[i].filterable_in_dashboard
           /\ call.input[i].input_type
                 \notin ATTRIBUTE_PROPERTIES_CONFIGURATION.filterable_in_dashboard)
          => /\ Returned
             /\ \E k \in 1..Len(call.response.results[i].errors) :
                   /\ call.response.results[i].errors[k].code = "INVALID"
                   /\ call.response.results[i].errors[k].path = "filterableInDashboard"
             /\ call.response.written[i] = "none"

\* C16: an item of input type REFERENCE without an entity type gets a REQUIRED
\* error at path entityType, and no attribute is written for it.
C16_ReferenceNeedsEntityType ==
    (AttributeCall /\ BatchPermitted)
    => \A i \in Indices :
          (/\ Truthy(call.input[i].slug)
           /\ ~LacksTypePermission(call.caller, call.input[i])
           /\ ~call.input[i].available_in_grid
           /\ call.input[i].input_type = REFERENCE
           /\ ~Truthy(call.input[i].entity_type))
          => /\ Returned
             /\ \E k \in 1..Len(call.response.results[i].errors) :
                   /\ call.response.results[i].errors[k].code = "REQUIRED"
                   /\ call.response.results[i].errors[k].path = "entityType"
             /\ call.response.written[i] = "none"

\* The attribute row that item i of the held attribute request names.
AttributeOf(i) == {r \in attributes : r.slug = call.input[i].slug}

\* The values loop reported an error at item i of the held attribute request.
HasValueError(i) ==
    \E k \in 1..Len(call.response.index_error_map[i]) :
        call.response.index_error_map[i][k].path = "values.None.name"

\* C17: when a nested value of a written item fails its validation and the
\* request is not rejected as a whole, every sibling value with a name has a
\* row under the item's attribute afterwards.
C17_SiblingValuesStillProcessed ==
    (AttributeCall /\ Returned /\ call.error_policy # REJECT_EVERYTHING)
    => \A i \in Indices :
          (call.response.written[i] # "none" /\ HasValueError(i))
          => \A k \in 1..Len(call.input[i].values) :
                Truthy(call.input[i].values[k].name)
                => \E a \in AttributeOf(i) : \E v \in attribute_values :
                      /\ v.attribute = a.pk
                      /\ v.slug = ValueSlug(call.input[i].values[k])

\* C18: a nested value that breaks the swatch rule of its attribute's input
\* type gets an INVALID error at its item, and the request adds no value row
\* with its slug under the item's attribute.
C18_SwatchRuleEnforced ==
    (AttributeCall /\ Returned)
    => \A i \in Indices : \A k \in 1..Len(call.input[i].values) :
          BreaksSwatchRule(call.input[i].input_type, call.input[i].values[k])
          => /\ \E e \in 1..Len(call.response.index_error_map[i]) :
                   call.response.index_error_map[i][e].code = "INVALID"
             /\ \A a \in AttributeOf(i) :
                   \A v \in attribute_values \ call.before.attribute_values :
                      ~(v.attribute = a.pk
                        /\ v.slug = ValueSlug(call.input[i].values[k]))

\* The number of events of the given kind that the held response carries for
\* the attribute with the given key.
EventCount(pk, event) ==
    Cardinality({e \in 1..Len(call.response.events) :
                    /\ call.response.events[e].pk = pk
                    /\ call.response.events[e].event = event})

\* C19: after a successful attribute request every created attribute has
\* exactly one created event and no updated event, every modified attribute
\* has exactly one updated event, and every event belongs to a returned item.
C19_EventMatchesWrite ==
    (AttributeCall /\ Returned)
    => /\ \A i \in Indices :
            call.response.results[i].instance # NoInstance
            => LET pk == call.response.results[i].instance.pk
               IN  /\ call.response.written[i] = "created"
                        => /\ EventCount(pk, "attribute_created") = 1
                           /\ EventCount(pk, "attribute_updated") = 0
                   /\ (call.response.written[i] = "updated"
                        /\ \A j \in Indices : call.response.written[j] = "created"
                               => call.response.results[j].instance.pk # pk)
                        => EventCount(pk, "attribute_updated") = 1
       /\ \A e \in 1..Len(call.response.events) :
            \E i \in Indices :
                call.response.results[i].instance.pk = call.response.events[e].pk

\* The keys of the committed items of the held request, in input order: the
\* attributes the response returns, or the variants of the listed SKUs.
CommittedInOrder ==
    IF call.op = "attributeBulkCreateOrUpdate"
    THEN LET Kept(result) == result.instance # NoInstance
             kept == SelectSeq(call.response.results, Kept)
         IN  [i \in 1..Len(kept) |-> kept[i].instance.pk]
    ELSE [i \in 1..Len(call.input.skus) |->
            First({v \in product_variants : v.sku = call.input.skus[i]}).pk]

\* C20: the events of a request that returned follow the input order: the
\* k-th event is the event of the k-th committed item.
C20_EventsInInputOrder ==
    (phase = "done" /\ Returned
        /\ call.op \in {"attributeBulkCreateOrUpdate", "variantMediaBulkAssign"})
    => /\ Len(call.response.events) = Len(CommittedInOrder)
       /\ \A k \in 1..Len(CommittedInOrder) :
             call.response.events[k].pk = CommittedInOrder[k]

\* A request that assigned media to two different variants returned with an
\* event for each.
C20_Witness ==
    /\ phase = "done" /\ Returned
    /\ call.op = "variantMediaBulkAssign"
    /\ Len(call.response.events) = 2
    /\ call.response.events[1].pk # call.response.events[2].pk

\* A response of one of the two mutations that send lifecycle events is held.
EventCall ==
    phase = "done"
    /\ call.op \in {"attributeBulkCreateOrUpdate", "variantMediaBulkAssign"}

\* C21: an event of a request is sent only after the request's atomic block
\* has committed; a request whose block rolled back sent none, and a request
\* that returned sent each of its events.
C21_EventsAfterCommit ==
    EventCall
    => /\ \A p \in 1..Len(call.response.delivery) :
             call.response.delivery[p].step = "emit"
             => \E q \in 1..(p - 1) : call.response.delivery[q].step = "commit"
       /\ Returned
            => Len(SelectSeq(call.response.delivery, LAMBDA d : d.step = "emit"))
                  = Len(call.response.events)

\* A request returned after its block committed and then sent two events.
C21_Witness ==
    /\ EventCall /\ Returned
    /\ Len(call.response.events) = 2
    /\ call.response.delivery[1].step = "commit"
    /\ call.response.delivery[3].step = "emit"

\* The tables the held request leaves behind when the event manager works.
TablesWithWorkingSink ==
    CASE call.op = "attributeBulkCreateOrUpdate" ->
            With(perform_mutation(call.caller, call.input, call.error_policy,
                                  call.before.attributes, call.before.attribute_values,
                                  FALSE),
                 LAMBDA out : [call.before EXCEPT !.attributes = out.rows,
                                                  !.attribute_values = out.value_rows])
      [] call.op = "variantMediaBulkAssign" ->
            With(bulk_assign(call.caller, call.input.media_alts, call.input.skus,
                             call.before.product_variants, call.before.product_media,
                             call.before.variant_media, FALSE),
                 LAMBDA out : [call.before EXCEPT !.variant_media = out.links])
      [] OTHER ->
            With(media_perform_mutation(call.caller, call.input, CHUNK_SIZE,
                                        call.before.products, call.before.product_media,
                                        0, FALSE),
                 LAMBDA out : [call.before EXCEPT !.product_media = out.media_rows])

\* C22: when the event manager raises while the events of a request are sent,
\* the tables hold every write of the request, as if the events had been sent.
C22_EventFailureKeepsWrites ==
    (/\ phase = "done"
     /\ call.op \in {"attributeBulkCreateOrUpdate", "variantMediaBulkAssign",
                      "productMediaBulkCreateOrUpdate"}
     /\ Failed(call.response.delivery))
    => Tables = TablesWithWorkingSink

\* The event manager raised in an attribute request that had written rows.
C22_Witness ==
    /\ phase = "done"
    /\ call.op = "attributeBulkCreateOrUpdate"
    /\ Failed(call.response.delivery)
    /\ attributes # call.before.attributes

\* A response of the product media mutation is held.
MediaCall == phase = "done" /\ call.op = "productMediaBulkCreateOrUpdate"

\* The media table the held request leaves when all its rows are written in
\* one chunk.
UnchunkedMedia ==
    media_perform_mutation(call.caller, call.input, Len(call.input) + 1,
                           call.before.products, call.before.product_media,
                           0, FALSE).media_rows

\* C23: a product media request whose chunk write failed leaves the media
\* table as it found it, and one whose writes all succeeded leaves the table
\* that a single unchunked write leaves.
C23_ChunkedWritesAllOrNothing ==
    MediaCall
    => /\ call.response.raised = "DatabaseError"
            => product_media = call.before.product_media
       /\ call.response.raised \in {"", "EventError"}
            => product_media = UnchunkedMedia

\* A response of the category or of the product bulk mutation is held.
CatalogueCall ==
    phase = "done"
    /\ call.op \in {"categoryBulkCreateOrUpdate", "productBulkCreateOrUpdate"}

\* C24: a category or product request that reports an error for any of its
\* items has created and modified no category and no product.
C24_AnyErrorRejectsBatch ==
    (CatalogueCall /\ call.response.raised = "" /\ call.response.errors # <<>>)
    => /\ categories = call.before.categories
       /\ products = call.before.products

\* A ProductBulkUpdate request has been served.
UpdateCall == phase = "done" /\ call.op = "productBulkUpdate"

\* C25: a reader that looks at the store while a batch is being written sees
\* the store of before the batch or the store of after it, never a part of
\* the batch: every committed state of the product media (chunked writes)
\* and of the products (per-product saves) is one of the two.
C25_NoPartialBatchVisible ==
    /\ MediaCall
         => \A i \in 1..Len(call.response.seen) :
               call.response.seen[i] \in {call.before.product_media, product_media}
    /\ UpdateCall
         => \A i \in 1..Len(call.response.seen) :
               call.response.seen[i] \in {call.before.products, products}

\* The terminal states of item i of the held attribute request, read from
\* the response: Rejected (errors are reported for it), Committed (a row was
\* created or updated for it), Dropped-by-policy (neither, in a batch that
\* REJECT_EVERYTHING turned down because of another item).
ItemHasErrors(i) == HasError(i)

ItemWritten(i) == call.response.written[i] # "none"

ItemDroppedByPolicy(i) ==
    /\ ~HasError(i)
    /\ call.response.written[i] = "none"
    /\ call.error_policy = REJECT_EVERYTHING
    /\ \E j \in Indices : HasError(j)

\* C26: every item of an answered attribute batch ends in exactly one of the
\* terminal states Rejected, Committed and Dropped-by-policy, and a Committed
\* item went through Validated first; so a Rejected item is never Committed
\* and a Committed item is never reported with errors.
C26_ItemStateMachine ==
    (AttributeCall /\ Returned)
    => \A i \in Indices :
          /\ Cardinality({state \in {"Rejected", "Committed", "Dropped"} :
                             \/ state = "Rejected" /\ ItemHasErrors(i)
                             \/ state = "Committed" /\ ItemWritten(i)
                             \/ state = "Dropped" /\ ItemDroppedByPolicy(i)}) = 1
          /\ ItemWritten(i) => call.response.validated[i]

\* A slug has been generated for the fields of a value.
SlugCall == phase = "done" /\ call.op = "generate_slug"

\* The base the priority rule gives: ref joined with value; else name joined
\* with code; else the first present of name, ref, value, code; else the
\* placeholder.
PriorityBase(name, ref, value, code, placeholder) ==
    IF Truthy(ref) /\ Truthy(value) THEN ref \o <<"-">> \o value
    ELSE IF Truthy(name) /\ Truthy(code) THEN name \o <<"-">> \o code
    ELSE IF Truthy(name) THEN name
    ELSE IF Truthy(ref) THEN ref
    ELSE IF Truthy(value) THEN value
    ELSE IF Truthy(code) THEN code
    ELSE placeholder

\* C27: for every combination of present and absent name, ref, value and
\* code, check_generation_slug and AttributeMixin.generate_slug take the
\* base the priority rule gives, and both take the same base.
C27_SlugBasePriority ==
    SlugCall
    => /\ \E placeholder \in {<<"-">>, default_slug} :
            /\ call.response.check_generation_slug_base
                  = PriorityBase(call.input.name, call.input.ref, call.input.value,
                                 call.input.code, placeholder)
            /\ call.response.generate_slug_base
                  = PriorityBase(call.input.name, call.input.ref, call.input.value,
                                 call.input.code, placeholder)
       /\ call.response.check_generation_slug_base = call.response.generate_slug_base

\* C28: the slug resolved for a validated item of an attribute batch is a
\* slug no attribute of the store had before the request, and no later item
\* of the same batch for which a row is written has it as well.
C28_ResolvedSlugIsFresh ==
    (AttributeCall /\ Returned)
    => \A i \in Indices :
          ItemWritten(i)
          => /\ call.response.validated[i]
                  => call.response.slugs[i]
                        \notin {r.slug : r \in call.before.attributes}
             /\ \A j \in Indices :
                  (i < j /\ ItemWritten(j))
                  => call.response.slugs[j] # call.response.slugs[i]

\* A category, product or product update request has been answered.
SuccessCall ==
    /\ phase = "done"
    /\ call.op \in {"categoryBulkCreateOrUpdate", "productBulkCreateOrUpdate",
                    "productBulkUpdate"}
    /\ call.response.raised = ""

\* C29: in the answer of a category, product or product update request the
\* success flag is true exactly when the list of errors is empty.
C29_SuccessIffNoErrors ==
    SuccessCall => (call.response.success <=> call.response.errors = <<>>)

\* A category request was answered with errors and without success.
C29_Witness ==
    /\ SuccessCall
    /\ call.op = "categoryBulkCreateOrUpdate"
    /\ call.response.errors # <<>>
    /\ ~call.response.success

\* A ProductBulkCreateOrUpdate request has been answered.
ProductCall ==
    /\ phase = "done"
    /\ call.op = "productBulkCreateOrUpdate"
    /\ call.response.raised = ""

\* C30: every item of a product request is either listed once, in
\* createdProducts or in updatedProducts, without an error of its own, or it
\* has an error, is listed in neither and no product was created or modified
\* for it.
C30_ListedOrUntouched ==
    ProductCall
    => \A i \in Indices :
          \/ /\ call.response.listed[i] \in {"created", "updated"}
             /\ call.response.item_errors[i] = <<>>
          \/ /\ call.response.item_errors[i] # <<>>
             /\ call.response.listed[i] = "none"
             /\ call.response.written[i] = "none"

\* A CategoryBulkCreateOrUpdate request has been answered.
CategoryCall ==
    /\ phase = "done"
    /\ call.op = "categoryBulkCreateOrUpdate"
    /\ call.response.raised = ""

\* Item i of the held category request named a parent that does not exist.
ParentMissing(i) ==
    \E k \in 1..Len(call.response.item_errors[i]) :
        call.response.item_errors[i][k].kind = "parent"

\* C31: an item of a category request whose parent_slug names no category is
\* reported as an error and the store is left as it was for it: no category
\* is created or updated for the item, and when it is the only item of the
\* request the categories are those of before the request.
C31_MissingParentLeavesStore ==
    CategoryCall
    => /\ \A i \in Indices :
            ParentMissing(i) => call.response.written[i] = "none"
       /\ (Len(call.input) = 1 /\ ParentMissing(1))
            => categories = call.before.categories

\* The rows of the nested values of item i of the held attribute request: the
\* values stored under the item's attribute with a slug of one of its values.
PersistedValues(i) ==
    {v \in attribute_values :
        /\ \E a \in AttributeOf(i) : v.attribute = a.pk
        /\ \E k \in 1..Len(call.input[i].values) :
              v.slug = ValueSlug(call.input[i].values[k])}

\* The errors item i of the held attribute request got for its nested values.
ValueErrors(i) ==
    SelectSeq(call.response.index_error_map[i],
              LAMBDA e : e.path \in {"values", "values.None.name"})

\* C32: every nested value create_values gets for a written item of an
\* answered attribute request is accounted for, by a row stored under the
\* item's attribute or by an error at the item's index: the item has no more
\* values than it has rows and value errors together.  create_values gets
\* the values of the items that are passed on without validation.
C32_EveryValueAccountedFor ==
    (AttributeCall /\ Returned)
    => \A i \in Indices :
          (ItemWritten(i) /\ ~call.response.validated[i])
          => Len(call.input[i].values)
                <= Cardinality(PersistedValues(i)) + Len(ValueErrors(i))

\* The items of the held product update request that lack a slug or name a
\* slug no product had before the request.
Unresolved ==
    {i \in Indices :
        \/ ~Truthy(call.input[i].slug)
        \/ \A r \in call.before.products : r.slug # call.input[i].slug}

\* C33: a product update request with an item that lacks a slug or names no
\* product is answered with success false and one error for each such item,
\* and changes no product; and no request that is answered with success
\* false has changed a product.
C33_FailedUpdateSavesNothing ==
    UpdateCall
    => /\ Unresolved # {}
            => /\ ~call.response.success
               /\ Len(call.response.errors) = Cardinality(Unresolved)
               /\ products = call.before.products
       /\ ~call.response.success => products = call.before.products

\* The inputs of the held product media request that name no product.
UnknownProducts ==
    {i \in Indices :
        \A p \in call.before.products : p.slug # call.input[i].product}

\* C34: a product media request of a permitted caller with an input that
\* names no product fails with NOT_FOUND, wherever the input stands in the
\* batch, and the media table is the one of before the request.
C34_UnknownProductWritesNothing ==
    (MediaCall /\ check_permissions(call.caller, {MANAGE_PRODUCTS})
               /\ UnknownProducts # {})
    => /\ call.response.raised = "ValidationError"
       /\ call.response.code = "NOT_FOUND"
       /\ product_media = call.before.product_media

\* The unknown product is named by the second input, behind an input that
\* would create a media row.
C34_Witness ==
    /\ MediaCall
    /\ check_permissions(call.caller, {MANAGE_PRODUCTS})
    /\ UnknownProducts = {2}
    /\ Truthy(call.input[1].media_url)
    /\ call.response.code = "NOT_FOUND"

\* C35: no two media rows have the same product and the same external URL,
\* whatever product media requests were served; and an answered product
\* media request has sent product_updated for every product of which it
\* created or updated a media row.
C35_OneRowPerProductAndUrl ==
    /\ \A m, n \in product_media :
          (Truthy(m.external_url) /\ m.product = n.product
                                  /\ m.external_url = n.external_url)
          => m = n
    /\ (MediaCall /\ call.response.raised = "")
         => \A k \in 1..Len(call.response.media) :
               \E e \in 1..Len(call.response.events) :
                  /\ call.response.events[e].event = "product_updated"
                  /\ call.response.events[e].pk = call.response.media[k].product

\* A VariantMediaBulkAssign request of a caller with MANAGE_PRODUCTS has been
\* served.
AssignCall ==
    /\ phase = "done"
    /\ call.op = "variantMediaBulkAssign"
    /\ check_permissions(call.caller, {MANAGE_PRODUCTS})

\* The pairs of the held assign request, in the order of the lists.
Pairs == 1..(IF Len(call.input.skus) < Len(call.input.media_alts)
             THEN Len(call.input.skus) ELSE Len(call.input.media_alts))

\* Pair i names a SKU without variant, or an alt text without media on the
\* product of the variant.
PairFails(i) ==
    LET variants == {v \in product_variants : v.sku = call.input.skus[i]}
    IN  \/ variants = {}
        \/ \A m \in product_media :
              ~(m.product = First(variants).product /\ m.alt = call.input.media_alts[i])

\* C36: an assign request whose lists differ in length, or with a SKU that
\* has no variant or an alt text that has no media on the variant's product,
\* fails, leaves the links as they were before the request and sends no
\* event.
C36_AssignAllOrNothing ==
    (AssignCall /\ \/ Len(call.input.skus) # Len(call.input.media_alts)
                   \/ \E i \in Pairs : PairFails(i))
    => /\ call.response.raised = "ValidationError"
       /\ variant_media = call.before.variant_media
       /\ call.response.events = <<>>
       /\ \A p \in 1..Len(call.response.delivery) :
             call.response.delivery[p].step # "emit"

\* The second pair of an assign request failed after the first pair had
\* created a link.
C36_Witness ==
    /\ AssignCall
    /\ Len(call.input.skus) = 2
    /\ Len(call.input.media_alts) = 2
    /\ ~PairFails(1)
    /\ PairFails(2)
    /\ call.before.variant_media = {}
    /\ call.response.raised = "ValidationError"

\* A request of one of the two assign mutations has been served.
LinkCall ==
    /\ phase = "done"
    /\ call.op \in {"variantMediaAssign", "variantMediaBulkAssign"}

\* The held request repeats an answered request with the same arguments.
Repeats(op) ==
    /\ LinkCall
    /\ call.op = op
    /\ call.first # NoCall
    /\ call.first.response.raised = ""

\* C37: a pair of media and variant never has two links, whatever assign
\* requests were served; a VariantMediaBulkAssign that repeats an answered
\* one is answered as well and leaves the links as they are; a
\* VariantMediaAssign for a pair that has a link fails with
\* MEDIA_ALREADY_ASSIGNED and leaves the links as they are.
C37_OneLinkPerPair ==
    /\ \A l, m \in variant_media :
          (l.media = m.media /\ l.variant = m.variant) => l = m
    /\ Repeats("variantMediaBulkAssign")
         => /\ call.response.raised = ""
            /\ variant_media = call.before.variant_media
    /\ (LinkCall /\ call.op = "variantMediaAssign"
                 /\ check_permissions(call.caller, {MANAGE_PRODUCTS})
                 /\ \E l \in call.before.variant_media :
                       /\ l.media = call.input.media_id
                       /\ l.variant = call.input.variant_id)
         => /\ call.response.raised = "ValidationError"
            /\ call.response.code = "MEDIA_ALREADY_ASSIGNED"
            /\ variant_media = call.before.variant_media

\* A VariantMediaAssign repeats an answered one: the pair has a link by now.
C37_Witness ==
    /\ Repeats("variantMediaAssign")
    /\ call.response.code = "MEDIA_ALREADY_ASSIGNED"
    /\ variant_media # {}

ConcurrentCall == call.op = "productBulkCreateOrUpdate" /\ "txn" \in DOMAIN call

\* The call's lookup found no product: its pass takes the create branch.
ClassifiedAsCreate(t) ==
    /\ call.txn[t].pc # "begin"
    /\ call.txn[t].existing_product = NoProduct

\* C38: when two ProductBulkCreateOrUpdate calls run at once and each carries
\* an item with the same slug that no product had before, at most one of the
\* calls classifies the item as a create, the store never holds two products
\* with that slug, and at most one of the calls lists the item among its
\* created products.
C38_AtMostOneCreate ==
    (/\ ConcurrentCall
     /\ products_with_slug(call.before.products, call.input[1].slug) = {})
        => /\ ~(\A t \in Transactions : ClassifiedAsCreate(t))
           /\ Cardinality(products_with_slug(products, call.input[1].slug)) <= 1
           /\ ~(\A t \in Transactions : call.txn[t].listed = "created")

====
